---- MODULE Spec2Model ----
(***************************************************************************)
(* jinjacraft: the template structure analyzer (model_generator.py) and    *)
(* the validator's free-variable set (validator.py).                       *)
(*                                                                         *)
(* A template is given by what the template engine's parser makes of its   *)
(* source: either a syntax error with a message, or a syntax tree.  One    *)
(* run is one call of generate_model: parse, analyze each top-level node,  *)
(* apply the condition markers, emit.                                      *)
(***************************************************************************)
EXTENDS Integers, Sequences, FiniteSets, TLC

(***************************************************************************)
(* Bounds of the template family                                           *)
(***************************************************************************)
\* number of top-level statements of a template
MaxStmts == 2
\* number of attributes in an attribute chain (x.a.b has two)
MaxPath == 2

(***************************************************************************)
(* Python values: str, bool, dict (insertion-ordered) and list.            *)
(* Every value is a record of one shape; d holds a dict's entries          *)
(* [k, v] in insertion order and l a list's items.                         *)
(***************************************************************************)
Str(s) == [t |-> "str", s |-> s, d |-> <<>>, l |-> <<>>]
PyTrue == [t |-> "bool", s |-> "True", d |-> <<>>, l |-> <<>>]
Dict(entries) == [t |-> "dict", s |-> "", d |-> entries, l |-> <<>>]
List(items) == [t |-> "list", s |-> "", d |-> <<>>, l |-> items]
EmptyDict == Dict(<<>>)
\* None
NoValue == [t |-> "none", s |-> "", d |-> <<>>, l |-> <<>>]

IsDict(v) == v.t = "dict"
IsList(v) == v.t = "list"
IsStr(v) == v.t = "str"

\* key in dict
HasKey(dict, key) == \E i \in 1..Len(dict.d) : dict.d[i].k = key
\* dict[key]
Get(dict, key) == dict.d[CHOOSE i \in 1..Len(dict.d) : dict.d[i].k = key].v
\* dict[key] = value: an existing key keeps its position, a new key goes last
SetItem(dict, key, value) ==
  IF HasKey(dict, key)
  THEN Dict([i \in 1..Len(dict.d) |->
               IF dict.d[i].k = key THEN [k |-> key, v |-> value] ELSE dict.d[i]])
  ELSE Dict(Append(dict.d, [k |-> key, v |-> value]))
\* dict.keys()
Keys(dict) == {dict.d[i].k : i \in 1..Len(dict.d)}

\* f"<{name}>"
Placeholder(name) == "<" \o name \o ">"

\* {"__condition__": True, "value": value}
ConditionMarker(value) ==
  Dict(<< [k |-> "__condition__", v |-> PyTrue], [k |-> "value", v |-> value] >>)

\* isinstance(value, dict) and value.get("__condition__")
IsConditionMarker(v) ==
  /\ IsDict(v)
  /\ HasKey(v, "__condition__")
  /\ LET c == Get(v, "__condition__")
     IN  \/ c.t = "bool" /\ c.s = "True"
         \/ c.t = "str" /\ c.s # ""
         \/ c.t = "dict" /\ c.d # <<>>
         \/ c.t = "list" /\ c.l # <<>>

(***************************************************************************)
(* _merge_nested_dict and _build_nested_structure                          *)
(***************************************************************************)
RECURSIVE _merge_nested_dict(_, _)
RECURSIVE MergeFrom(_, _, _)

\* the loop of _merge_nested_dict from the i-th item of update on
MergeFrom(result, update, i) ==
  IF i > Len(update.d) THEN result
  ELSE LET key == update.d[i].k
           value == update.d[i].v
       IN  IF HasKey(result, key) /\ IsDict(Get(result, key)) /\ IsDict(value)
           THEN MergeFrom(SetItem(result, key, _merge_nested_dict(Get(result, key), value)),
                          update, i + 1)
           ELSE MergeFrom(SetItem(result, key, value), update, i + 1)

_merge_nested_dict(base, update) == MergeFrom(base, update, 1)

RECURSIVE _build_nested_structure(_, _)
_build_nested_structure(path, is_list) ==
  IF path = <<>> THEN EmptyDict
  ELSE IF Len(path) = 1
  THEN IF is_list
       THEN Dict(<< [k |-> path[1], v |-> List(<<>>)] >>)
       ELSE Dict(<< [k |-> path[1], v |-> Str(Placeholder(path[1]))] >>)
  ELSE LET nested == _build_nested_structure(Tail(path), FALSE)
       IN  IF is_list
           THEN Dict(<< [k |-> path[1], v |-> List(<<nested>>)] >>)
           ELSE Dict(<< [k |-> path[1], v |-> nested] >>)

(***************************************************************************)
(* Syntax tree nodes (jinja2.nodes).  Every node is a record of one shape; *)
(* a field the node kind does not have, or one that is None, is <<>>, a    *)
(* single child is a one-element sequence, a list of children a sequence.  *)
(***************************************************************************)
NoNode ==
  [k |-> "", name |-> "", attr |-> "",
   node |-> <<>>, expr |-> <<>>, test |-> <<>>, left |-> <<>>, right |-> <<>>,
   args |-> <<>>, kwargs |-> <<>>, ops |-> <<>>, iter |-> <<>>, target |-> <<>>,
   nodes |-> <<>>, body |-> <<>>, elif_ |-> <<>>, else_ |-> <<>>]

TemplateData == [NoNode EXCEPT !.k = "TemplateData"]
Const == [NoNode EXCEPT !.k = "Const"]
Name(n) == [NoNode EXCEPT !.k = "Name", !.name = n]
Getattr(base, a) == [NoNode EXCEPT !.k = "Getattr", !.node = <<base>>, !.attr = a]
Getitem(base) == [NoNode EXCEPT !.k = "Getitem", !.node = <<base>>]
Not(e) == [NoNode EXCEPT !.k = "Not", !.node = <<e>>]
And(l, r) == [NoNode EXCEPT !.k = "And", !.left = <<l>>, !.right = <<r>>]
Compare(e, operands) == [NoNode EXCEPT !.k = "Compare", !.expr = <<e>>, !.ops = operands]
Operand(e) == [NoNode EXCEPT !.k = "Operand", !.expr = <<e>>]
Filter(e, f) == [NoNode EXCEPT !.k = "Filter", !.node = <<e>>, !.name = f]
Call(f, arguments) == [NoNode EXCEPT !.k = "Call", !.node = <<f>>, !.args = arguments]
Output(children) == [NoNode EXCEPT !.k = "Output", !.nodes = children]
If(tst, bdy, elifs, els) ==
  [NoNode EXCEPT !.k = "If", !.test = <<tst>>, !.body = bdy, !.elif_ = elifs, !.else_ = els]
For(tgt, it, bdy, els, tst) ==
  [NoNode EXCEPT !.k = "For", !.target = <<tgt>>, !.iter = <<it>>, !.body = bdy,
                 !.else_ = els, !.test = tst]

(***************************************************************************)
(* TemplateAnalyzer.  The analyzer's fields travel as one record           *)
(* st = [variables, loop_variables, condition_paths]; a path of            *)
(* condition_paths is a tuple of strings.                                  *)
(***************************************************************************)
\* loop_var when the loop target is not a Name (None): equal to no name
NoLoopVar == ""

RECURSIVE _get_attribute_path(_)
_get_attribute_path(node) ==
  IF node.k = "Name" THEN <<node.name>>
  ELSE IF node.k = "Getattr" THEN _get_attribute_path(node.node[1]) \o <<node.attr>>
  ELSE IF node.k = "Getitem" THEN _get_attribute_path(node.node[1])
  ELSE <<>>

RECURSIVE _mark_condition_variable(_, _, _)
RECURSIVE MarkConditionChildren(_, _, _, _)

\* the loop over ('node', 'expr', 'left', 'right') of _mark_condition_variable
MarkConditionChildren(st, children, i, loop_vars) ==
  IF i > Len(children) THEN st
  ELSE MarkConditionChildren(_mark_condition_variable(st, children[i], loop_vars),
                             children, i + 1, loop_vars)

_mark_condition_variable(st, node, loop_vars) ==
  LET path == _get_attribute_path(node)
      st1 == IF node.k \in {"Name", "Getattr"} /\ path # <<>> /\ path[1] \notin loop_vars
             THEN [st EXCEPT !.condition_paths = @ \cup {path}]
             ELSE st
  IN  MarkConditionChildren(st1, node.node \o node.expr \o node.left \o node.right,
                            1, loop_vars)

RECURSIVE _mark_loop_condition_variable(_, _, _, _)
RECURSIVE MarkLoopConditionChildren(_, _, _, _, _)

\* the loop over ('node', 'expr', 'left', 'right') of _mark_loop_condition_variable
MarkLoopConditionChildren(st, children, i, iter_path, loop_var) ==
  IF i > Len(children) THEN st
  ELSE MarkLoopConditionChildren(
         _mark_loop_condition_variable(st, children[i], iter_path, loop_var),
         children, i + 1, iter_path, loop_var)

_mark_loop_condition_variable(st, node, iter_path, loop_var) ==
  LET st1 == IF /\ node.k = "Getattr"
                /\ node.node[1].k = "Name"
                /\ node.node[1].name = loop_var
                /\ iter_path # <<>>
             THEN [st EXCEPT !.condition_paths =
                                @ \cup {<<iter_path[1], "__item__", node.attr>>}]
             ELSE st
  IN  MarkLoopConditionChildren(st1, node.node \o node.expr \o node.left \o node.right,
                                1, iter_path, loop_var)

\* _add_loop_item_attribute starting a new item mapping at every call
ItemAttributeReplacingItem(st, list_name, attr) ==
  LET is_condition == <<list_name, "__item__", attr>> \in st.condition_paths
      leaf == IF is_condition
              THEN ConditionMarker(Str(Placeholder(attr)))
              ELSE Str(Placeholder(attr))
  IN  [st EXCEPT !.variables =
         SetItem(@, list_name, List(<<SetItem(EmptyDict, attr, leaf)>>))]


\* _add_loop_item_attribute giving every attribute an item of its own
ItemAttributeAppendingItem(st, list_name, attr) ==
  LET is_condition == <<list_name, "__item__", attr>> \in st.condition_paths
      leaf == IF is_condition
              THEN ConditionMarker(Str(Placeholder(attr)))
              ELSE Str(Placeholder(attr))
      items == IF HasKey(st.variables, list_name) /\ IsList(Get(st.variables, list_name))
               THEN Get(st.variables, list_name).l
               ELSE <<>>
  IN  [st EXCEPT !.variables =
         SetItem(@, list_name, List(Append(items, SetItem(EmptyDict, attr, leaf))))]

_add_loop_item_attribute(st, list_name, attr) ==
  LET vars1 == IF \/ ~HasKey(st.variables, list_name)
                  \/ ~IsList(Get(st.variables, list_name))
                  \/ Get(st.variables, list_name).l = <<>>
               THEN SetItem(st.variables, list_name, List(<<EmptyDict>>))
               ELSE st.variables
      is_condition == <<list_name, "__item__", attr>> \in st.condition_paths
      items == Get(vars1, list_name).l
      leaf == IF is_condition
              THEN ConditionMarker(Str(Placeholder(attr)))
              ELSE Str(Placeholder(attr))
  IN  IF IsDict(items[1])
      THEN [st EXCEPT !.variables =
              SetItem(vars1, list_name,
                      List([items EXCEPT ![1] = SetItem(items[1], attr, leaf)]))]
      ELSE [st EXCEPT !.variables = vars1]

RECURSIVE _analyze_node(_, _, _)
RECURSIVE _analyze_for_body(_, _, _, _, _)
RECURSIVE AnalyzeEach(_, _, _, _)
RECURSIVE AnalyzeForBodyEach(_, _, _, _, _, _)

\* for child in children: self._analyze_node(child, loop_vars)
AnalyzeEach(st, children, i, loop_vars) ==
  IF i > Len(children) THEN st
  ELSE AnalyzeEach(_analyze_node(st, children[i], loop_vars), children, i + 1, loop_vars)

\* for child in children: self._analyze_for_body(child, iter_path, loop_var, loop_vars)
AnalyzeForBodyEach(st, children, i, iter_path, loop_var, loop_vars) ==
  IF i > Len(children) THEN st
  ELSE AnalyzeForBodyEach(
         _analyze_for_body(st, children[i], iter_path, loop_var, loop_vars),
         children, i + 1, iter_path, loop_var, loop_vars)

\* the children the trailing loop of _analyze_node visits, in its order
OtherChildren(node) ==
  node.node \o node.expr \o node.test \o node.left \o node.right \o node.args \o node.kwargs

\* the For branch of _analyze_node
AnalyzeFor(st, node, loop_vars) ==
  LET loop_var == IF node.target[1].k = "Name" THEN node.target[1].name ELSE NoLoopVar
      iter_path == _get_attribute_path(node.iter[1])
      st1 == IF iter_path # <<>> /\ iter_path[1] \notin loop_vars
             THEN [st EXCEPT !.loop_variables = @ \cup {iter_path[1]}]
             ELSE st
      new_loop_vars == IF loop_var # NoLoopVar THEN loop_vars \cup {loop_var} ELSE loop_vars
      st2 == AnalyzeForBodyEach(st1, node.body, 1, iter_path, loop_var, new_loop_vars)
  IN  AnalyzeEach(st2, node.else_, 1, loop_vars)

\* the If branch of _analyze_node
AnalyzeIf(st, node, loop_vars) ==
  LET st1 == _mark_condition_variable(st, node.test[1], loop_vars)
      st2 == _analyze_node(st1, node.test[1], loop_vars)
      st3 == AnalyzeEach(st2, node.body, 1, loop_vars)
      st4 == AnalyzeEach(st3, node.elif_, 1, loop_vars)
  IN  AnalyzeEach(st4, node.else_, 1, loop_vars)

\* the Getattr branch of _analyze_node
AnalyzeGetattr(st, node, loop_vars) ==
  LET path == _get_attribute_path(node)
  IN  IF path # <<>> /\ path[1] \notin loop_vars
      THEN [st EXCEPT !.variables =
              _merge_nested_dict(@, _build_nested_structure(path, FALSE))]
      ELSE st

\* the Name branch of _analyze_node
AnalyzeName(st, node, loop_vars) ==
  IF node.name \notin loop_vars
  THEN [st EXCEPT !.variables =
          _merge_nested_dict(@, Dict(<< [k |-> node.name,
                                         v |-> Str(Placeholder(node.name))] >>))]
  ELSE st

\* No node kind of the family other than For and If has a body field.
_analyze_node(st, node, loop_vars) ==
  IF node.k = "Getattr" THEN AnalyzeGetattr(st, node, loop_vars)
  ELSE LET st1 == IF node.k = "For" THEN AnalyzeFor(st, node, loop_vars)
                  ELSE IF node.k = "Name" THEN AnalyzeName(st, node, loop_vars)
                  ELSE IF node.k = "Output" THEN AnalyzeEach(st, node.nodes, 1, loop_vars)
                  ELSE IF node.k = "If" THEN AnalyzeIf(st, node, loop_vars)
                  ELSE st
       IN  AnalyzeEach(st1, OtherChildren(node), 1, loop_vars)

\* the If branch of _analyze_for_body
AnalyzeForBodyIf(st, node, iter_path, loop_var, loop_vars) ==
  LET st1 == _mark_loop_condition_variable(st, node.test[1], iter_path, loop_var)
      st2 == _analyze_for_body(st1, node.test[1], iter_path, loop_var, loop_vars)
      st3 == AnalyzeForBodyEach(st2, node.body, 1, iter_path, loop_var, loop_vars)
  IN  AnalyzeForBodyEach(st3, node.else_, 1, iter_path, loop_var, loop_vars)

_analyze_for_body(st, node, iter_path, loop_var, loop_vars) ==
  IF node.k = "Getattr" /\ node.node[1].k = "Name" /\ node.node[1].name = loop_var
  THEN IF iter_path # <<>>
       THEN _add_loop_item_attribute(st, iter_path[1], node.attr)
       ELSE st
  ELSE IF node.k = "Output"
  THEN AnalyzeForBodyEach(st, node.nodes, 1, iter_path, loop_var, loop_vars)
  ELSE IF node.k = "For" THEN _analyze_node(st, node, loop_vars)
  ELSE IF node.k = "If" THEN AnalyzeForBodyIf(st, node, iter_path, loop_var, loop_vars)
  ELSE _analyze_node(st, node, loop_vars)

RECURSIVE _apply_condition_markers(_, _, _)
RECURSIVE ApplyMarkersFrom(_, _, _, _)

\* the loop of _apply_condition_markers from the i-th item of data on
ApplyMarkersFrom(data, i, current_path, condition_paths) ==
  IF i > Len(data.d) THEN data
  ELSE LET key == data.d[i].k
           value == data.d[i].v
           path == current_path \o <<key>>
           data1 == IF path \in condition_paths /\ IsStr(value)
                    THEN SetItem(data, key, ConditionMarker(value))
                    ELSE IF IsDict(value) /\ ~HasKey(value, "__condition__")
                    THEN SetItem(data, key,
                                 _apply_condition_markers(value, path, condition_paths))
                    ELSE data
       IN  ApplyMarkersFrom(data1, i + 1, current_path, condition_paths)

_apply_condition_markers(data, current_path, condition_paths) ==
  ApplyMarkersFrom(data, 1, current_path, condition_paths)

(***************************************************************************)
(* get_template_variables: jinja2.meta.find_undeclared_variables, the      *)
(* names a template loads that no enclosing construct declares.  A for     *)
(* loop declares its target for its body and its filter test; the iterable *)
(* and the else block are evaluated outside the loop.                      *)
(***************************************************************************)
RECURSIVE Undeclared(_, _)
RECURSIVE UndeclaredEach(_, _, _)

UndeclaredEach(children, i, declared) ==
  IF i > Len(children) THEN {}
  ELSE Undeclared(children[i], declared) \cup UndeclaredEach(children, i + 1, declared)

Undeclared(node, declared) ==
  IF node.k = "Name" THEN {node.name} \ declared
  ELSE IF node.k = "For"
  THEN LET inner == declared \cup
                    (IF node.target[1].k = "Name" THEN {node.target[1].name} ELSE {})
       IN  UndeclaredEach(node.iter, 1, declared)
           \cup UndeclaredEach(node.body \o node.test, 1, inner)
           \cup UndeclaredEach(node.else_, 1, declared)
  ELSE UndeclaredEach(node.node \o node.expr \o node.ops \o node.test \o node.left
                        \o node.right \o node.args \o node.kwargs \o node.nodes
                        \o node.body \o node.elif_ \o node.else_,
                      1, declared)

\* template_vars of a parsed template body
get_template_variables(body) == UndeclaredEach(body, 1, {})

\* get_data_keys
get_data_keys(data) == IF IsDict(data) THEN Keys(data) ELSE {}

(***************************************************************************)
(* The template family.  x and L are the template's own variables, t the   *)
(* target of a loop and u the target of a loop nested in it; only loops    *)
(* mention t and u.                                                        *)
(***************************************************************************)
Attrs == {"a", "b"}

\* base, base.a, base.a.b, base.a.b.a, ...: the chain of n attributes
RECURSIVE Chain(_, _)
Chain(base, n) ==
  IF n = 0 THEN Name(base)
  ELSE Getattr(Chain(base, n - 1), IF n % 2 = 1 THEN "a" ELSE "b")

X == Name("x")
L == Name("L")
T == Name("t")
U == Name("u")

\* {{ e }}
Out(e) == Output(<<e>>)
\* {% if tst %}body{% endif %}
IfThen(tst, bdy) == If(tst, bdy, <<>>, <<>>)
\* {% for t in L %}body{% endfor %}
ForTInL(bdy) == For(T, L, bdy, <<>>, <<>>)

TopOutputs ==
  {Out(Chain("x", n)) : n \in 0..MaxPath}
    \cup {Out(Getattr(X, "b")), Out(Getattr(Getattr(X, "a"), "a")),
          Out(L), Out(Getattr(L, "a")), Out(Filter(L, "upper")),
          Out(Compare(X, <<Const>>)), Out(TemplateData),
          Out(Compare(Const, <<Operand(Getattr(X, "a"))>>))}

TopIfs ==
  {IfThen(X, <<>>), IfThen(Getattr(X, "a"), <<>>), IfThen(Not(X), <<>>),
   IfThen(Compare(X, <<Const>>), <<>>), IfThen(Filter(X, "upper"), <<>>),
   IfThen(And(X, L), <<>>), IfThen(X, <<Out(Getattr(X, "a"))>>),
   If(X, <<>>, <<IfThen(L, <<>>)>>, <<>>),
   If(X, <<>>, <<>>, <<Out(L)>>)}

\* statements of the body of a loop with target t
LoopOutputs ==
  {Out(Chain("t", n)) : n \in 0..MaxPath}
    \cup {Out(Getattr(T, "b")),
          Output(<<Getattr(T, "a"), TemplateData, Getattr(T, "b")>>),
          Out(X), Out(Filter(Getattr(T, "a"), "upper")),
          Out(Compare(Getattr(T, "a"), <<Const>>)),
          Out(Call(X, <<Getattr(T, "a")>>))}

LoopIfs ==
  {IfThen(Getattr(T, "a"), <<Out(Getattr(T, "b"))>>),
   IfThen(Not(Getattr(T, "a")), <<>>),
   IfThen(And(Getattr(T, "a"), Getattr(T, "b")), <<>>),
   IfThen(Compare(Getattr(T, "a"), <<Const>>), <<>>),
   IfThen(X, <<>>),
   If(X, <<>>, <<IfThen(Getattr(T, "a"), <<Out(Getattr(T, "b"))>>)>>, <<>>),
   If(Getattr(T, "a"), <<>>, <<>>, <<Out(Getattr(T, "b"))>>)}

InnerFors ==
  {For(U, Getattr(T, "a"), <<Out(Getattr(U, "b"))>>, <<>>, <<>>),
   For(U, L, <<Out(Getattr(T, "b"))>>, <<>>, <<>>),
   For(U, L, <<IfThen(Getattr(T, "a"), <<>>)>>, <<>>, <<>>),
   For(U, X, <<Out(U)>>, <<>>, <<>>)}

TopFors ==
  {ForTInL(<<s>>) : s \in LoopOutputs \cup LoopIfs \cup InnerFors}
    \cup {ForTInL(<<>>),
          For(T, Getattr(X, "a"), <<Out(Getattr(T, "b"))>>, <<>>, <<>>),
          For(T, L, <<Out(Getattr(T, "a"))>>, <<>>, <<Getattr(T, "b")>>),
          For(T, L, <<Out(Getattr(T, "a"))>>, <<Out(X)>>, <<>>)}

Stmts == TopOutputs \cup TopIfs \cup TopFors

\* the parser puts adjacent print statements and text into one Output node
\* and adjacent text into one TemplateData
Adjoin(b, stmt) ==
  IF b # <<>> /\ b[Len(b)].k = "Output" /\ stmt.k = "Output"
  THEN LET before == b[Len(b)].nodes
           merged == IF before[Len(before)].k = "TemplateData"
                        /\ stmt.nodes[1].k = "TemplateData"
                     THEN before \o Tail(stmt.nodes)
                     ELSE before \o stmt.nodes
       IN  [b EXCEPT ![Len(b)] = Output(merged)]
  ELSE Append(b, stmt)

\* the statements that change what earlier statements left in the model:
\* a bare name, an attribute of it, a test of it, and loops over L that
\* print or test the attributes of their target
LaterStmts ==
  {Out(X), Out(Getattr(X, "a")), Out(L), IfThen(X, <<>>),
   ForTInL(<<Out(Getattr(T, "a"))>>), ForTInL(<<Out(Getattr(T, "b"))>>),
   ForTInL(<<IfThen(Getattr(T, "a"), <<Out(Getattr(T, "b"))>>)>>)}

\* the templates of up to n statements: the first two are any statements
\* of Stmts, the third and later ones statements of LaterStmts
RECURSIVE Bodies(_)
Bodies(n) ==
  IF n = 0 THEN {<<>>}
  ELSE LET shorter == Bodies(n - 1)
       IN  shorter \cup {Adjoin(b, stmt) :
                          b \in shorter, stmt \in IF n <= 2 THEN Stmts ELSE LaterStmts}

\* the parser's diagnostics for a source it rejects
SyntaxMessages == {"Expected an expression, got 'end of statement block'",
                   "Unexpected end of template."}

\* a template source, by what env.parse does with it: body when it parses,
\* syntax_error (the TemplateSyntaxError's message) when it does not
Sources ==
  {[syntax_error |-> "", body |-> b] : b \in Bodies(MaxStmts) \ {<<>>}}
    \cup {[syntax_error |-> m, body |-> <<>>] : m \in SyntaxMessages}

\* the analyzer's fields after __init__
NewAnalyzer == [variables |-> EmptyDict, loop_variables |-> {}, condition_paths |-> {}]

\* analyze() of a fresh analyzer on a template that parses to body
analyze(body) ==
  LET st == AnalyzeEach(NewAnalyzer, body, 1, {})
  IN  _apply_condition_markers(st.variables, <<>>, st.condition_paths)

(***************************************************************************)
(* The emitter.  A text is the sequence of its lines; a line is its        *)
(* leading spaces (prefix) and the rest (text), so that strip() is the     *)
(* text alone.                                                             *)
(***************************************************************************)
Line(prefix, text) == [prefix |-> prefix, text |-> text]

\* "  " * indent
RECURSIVE Indent(_)
Indent(indent) == IF indent = 0 THEN "" ELSE "  " \o Indent(indent - 1)

\* the lines of "\n".join(lines) when it is split at "\n" again
Joined(lines) == IF lines = <<>> THEN << Line("", "") >> ELSE lines

\* a test for the brackets that no string passes
NeverBracketed(s) == FALSE

\* value.startswith("<") and value.endswith(">"), for the strings analyze makes
IsBracketed(s) == \E n \in {"x", "L", "t", "u", "a", "b"} : s = Placeholder(n)

\* f"{value}" of a leaf
Format(v) == v.s

RECURSIVE _add_type_comments(_, _)
RECURSIVE TypeCommentsFrom(_, _, _)
RECURSIVE ItemLinesFrom(_, _, _)
RECURSIVE StrippedFrom(_, _, _, _)

\* the lines a dict item of a list contributes: "- " before its first
\* non-blank line, four spaces before the later ones
StrippedFrom(item_lines, i, first, prefix) ==
  IF i > Len(item_lines) THEN <<>>
  ELSE IF item_lines[i].text = ""
  THEN StrippedFrom(item_lines, i + 1, first, prefix)
  ELSE IF first
  THEN <<Line(prefix \o "  ", "- " \o item_lines[i].text)>>
         \o StrippedFrom(item_lines, i + 1, FALSE, prefix)
  ELSE <<Line(prefix \o "    ", item_lines[i].text)>>
         \o StrippedFrom(item_lines, i + 1, FALSE, prefix)

\* for item in value
ItemLinesFrom(items, j, prefix) ==
  IF j > Len(items) THEN <<>>
  ELSE (IF IsDict(items[j])
        THEN StrippedFrom(Joined(_add_type_comments(items[j], 0)), 1, TRUE, prefix)
        ELSE <<Line(prefix \o "  ", "- " \o Format(items[j]))>>)
       \o ItemLinesFrom(items, j + 1, prefix)

\* the loop of _add_type_comments from the i-th item of data on
TypeCommentsFrom(data, i, indent) ==
  IF i > Len(data.d) THEN <<>>
  ELSE LET key == data.d[i].k
           value == data.d[i].v
           prefix == Indent(indent)
           here ==
             IF IsConditionMarker(value)
             THEN LET placeholder == IF HasKey(value, "value")
                                     THEN Format(Get(value, "value"))
                                     ELSE Placeholder(key)
                  IN  <<Line(prefix, key \o ": \"" \o placeholder
                                       \o "\"  # truthy value (boolean, string, number)")>>
             ELSE IF value.t = "bool"
             THEN <<Line(prefix, key \o ": "
                                   \o (IF value.s = "True" THEN "true" ELSE "false")
                                   \o "  # boolean")>>
             ELSE IF IsStr(value) /\ IsBracketed(value.s)
             THEN <<Line(prefix, key \o ": \"" \o value.s \o "\"  # string")>>
             ELSE IF IsList(value)
             THEN IF value.l = <<>>
                  THEN <<Line(prefix, key \o ": []  # list")>>
                  ELSE <<Line(prefix, key \o ":  # list")>> \o ItemLinesFrom(value.l, 1, prefix)
             ELSE IF IsDict(value)
             THEN <<Line(prefix, key \o ":  # object")>>
                    \o Joined(_add_type_comments(value, indent + 1))
             ELSE <<Line(prefix, key \o ": " \o Format(value))>>
       IN  here \o TypeCommentsFrom(data, i + 1, indent)

\* the lines list of _add_type_comments; the returned text is their join
_add_type_comments(data, indent) ==
  IF IsDict(data) THEN TypeCommentsFrom(data, 1, indent) ELSE <<>>

RECURSIVE _clean_structure_for_json(_)
RECURSIVE CleanExceptListItems(_)
RECURSIVE CleanFrom(_, _)

\* the loop of _clean_structure_for_json over a dict, from its i-th item on
CleanFrom(data, i) ==
  IF i > Len(data.d) THEN <<>>
  ELSE LET key == data.d[i].k
           value == data.d[i].v
           cleaned == IF IsConditionMarker(value)
                      THEN IF HasKey(value, "value") THEN Get(value, "value")
                           ELSE Str(Placeholder(key))
                      ELSE IF IsDict(value) \/ IsList(value)
                      THEN _clean_structure_for_json(value)
                      ELSE value
       IN  <<[k |-> key, v |-> cleaned]>> \o CleanFrom(data, i + 1)

\* _clean_structure_for_json leaving the items of lists as they are
CleanExceptListItems(data) ==
  IF IsDict(data)
  THEN Dict([i \in 1..Len(data.d) |->
               [k |-> data.d[i].k,
                v |-> IF IsConditionMarker(data.d[i].v)
                      THEN Get(data.d[i].v, "value")
                      ELSE IF IsDict(data.d[i].v)
                      THEN CleanExceptListItems(data.d[i].v)
                      ELSE data.d[i].v]])
  ELSE data

_clean_structure_for_json(data) ==
  IF IsDict(data) THEN Dict(CleanFrom(data, 1))
  ELSE IF IsList(data)
  THEN List([j \in 1..Len(data.l) |-> _clean_structure_for_json(data.l[j])])
  ELSE data

(***************************************************************************)
(* json.dumps(obj, indent=2), line by line, and json.loads of such lines.  *)
(* On a line stands an optional key, then a string, true, an empty or an   *)
(* opening or a closing bracket, then an optional comma.                   *)
(***************************************************************************)
\* a string as JSON writes it; the strings of a model need no escapes
Quote(s) == "\"" \o s \o "\""

NoKey == ""

\* what stands on a line
Token(key, kind, str, comma) == [key |-> key, kind |-> kind, s |-> str, comma |-> comma]

\* the text of a line without its indentation
TokenText(tok) ==
  (IF tok.key = NoKey THEN "" ELSE Quote(tok.key) \o ": ")
    \o (IF tok.kind = "str" THEN Quote(tok.s) ELSE tok.kind)
    \o (IF tok.comma THEN "," ELSE "")

RECURSIVE DumpsLines(_, _, _, _)
RECURSIVE DumpsMembers(_, _, _)
RECURSIVE DumpsItems(_, _, _)

\* the lines of the value v at the given depth, after the key (NoKey in a
\* list and at the top) and before the comma if there is one
DumpsLines(v, depth, key, comma) ==
  IF IsStr(v) THEN <<Line(Indent(depth), TokenText(Token(key, "str", v.s, comma)))>>
  ELSE IF v.t = "bool"
  THEN <<Line(Indent(depth),
              TokenText(Token(key, IF v.s = "True" THEN "true" ELSE "false", "", comma)))>>
  ELSE IF v.t = "none"
  THEN <<Line(Indent(depth), TokenText(Token(key, "null", "", comma)))>>
  ELSE IF IsDict(v)
  THEN IF v.d = <<>>
       THEN <<Line(Indent(depth), TokenText(Token(key, "{}", "", comma)))>>
       ELSE <<Line(Indent(depth), TokenText(Token(key, "{", "", FALSE)))>>
              \o DumpsMembers(v.d, 1, depth + 1)
              \o <<Line(Indent(depth), TokenText(Token(NoKey, "}", "", comma)))>>
  ELSE IF v.l = <<>>
       THEN <<Line(Indent(depth), TokenText(Token(key, "[]", "", comma)))>>
       ELSE <<Line(Indent(depth), TokenText(Token(key, "[", "", FALSE)))>>
              \o DumpsItems(v.l, 1, depth + 1)
              \o <<Line(Indent(depth), TokenText(Token(NoKey, "]", "", comma)))>>

DumpsMembers(entries, i, depth) ==
  IF i > Len(entries) THEN <<>>
  ELSE DumpsLines(entries[i].v, depth, entries[i].k, i < Len(entries))
         \o DumpsMembers(entries, i + 1, depth)

DumpsItems(items, i, depth) ==
  IF i > Len(items) THEN <<>>
  ELSE DumpsLines(items[i], depth, NoKey, i < Len(items))
         \o DumpsItems(items, i + 1, depth)

\* json.dumps(obj, indent=2)
dumps(obj) == DumpsLines(obj, 0, NoKey, FALSE)

\* the keys and the strings a line of a dumped model can hold
JsonKeys == {NoKey, "x", "L", "t", "u", "a", "b", "__condition__", "value"}
JsonStrings == {Placeholder(n) : n \in {"x", "L", "t", "u", "a", "b"}}
JsonTokens ==
  {Token(key, "str", str, comma) :
     key \in JsonKeys, str \in JsonStrings, comma \in BOOLEAN}
    \cup {Token(key, kind, "", comma) :
            key \in JsonKeys, kind \in {"{", "[", "{}", "[]", "true", "false", "null"},
            comma \in BOOLEAN}
    \cup {Token(NoKey, kind, "", comma) : kind \in {"}", "]"}, comma \in BOOLEAN}

\* the scanner: the token a line's text stands for
TokenOf == [text \in {TokenText(tok) : tok \in JsonTokens} |->
              CHOOSE tok \in JsonTokens : TokenText(tok) = text]

\* the token on the i-th line; kind "" past the end and for a text that is
\* no JSON
TokenAt(lines, i) ==
  IF i <= Len(lines) /\ lines[i].text \in DOMAIN TokenOf
  THEN TokenOf[lines[i].text]
  ELSE Token(NoKey, "", "", FALSE)

RECURSIVE LoadsValue(_, _)
RECURSIVE LoadsMembers(_, _, _)
RECURSIVE LoadsItems(_, _, _)

\* the value that begins on the i-th line, and the line after it; the value
\* is NoValue with ok false when the lines are no JSON
LoadsValue(lines, i) ==
  LET tok == TokenAt(lines, i)
  IN  IF tok.kind = "str" THEN [ok |-> TRUE, value |-> Str(tok.s), next |-> i + 1]
      ELSE IF tok.kind = "true" THEN [ok |-> TRUE, value |-> PyTrue, next |-> i + 1]
      ELSE IF tok.kind = "false"
      THEN [ok |-> TRUE, value |-> [PyTrue EXCEPT !.s = "False"], next |-> i + 1]
      ELSE IF tok.kind = "null" THEN [ok |-> TRUE, value |-> NoValue, next |-> i + 1]
      ELSE IF tok.kind = "{}" THEN [ok |-> TRUE, value |-> EmptyDict, next |-> i + 1]
      ELSE IF tok.kind = "[]" THEN [ok |-> TRUE, value |-> List(<<>>), next |-> i + 1]
      ELSE IF tok.kind = "{" THEN LoadsMembers(lines, i + 1, <<>>)
      ELSE IF tok.kind = "[" THEN LoadsItems(lines, i + 1, <<>>)
      ELSE [ok |-> FALSE, value |-> NoValue, next |-> i + 1]

\* the members of an object from the i-th line on, up to its closing line;
\* a key met again replaces the earlier value
LoadsMembers(lines, i, entries) ==
  LET tok == TokenAt(lines, i)
  IN  IF tok.kind = "}" THEN [ok |-> TRUE, value |-> Dict(entries), next |-> i + 1]
      ELSE IF tok.kind = "" \/ tok.key = NoKey
      THEN [ok |-> FALSE, value |-> NoValue, next |-> i + 1]
      ELSE LET member == LoadsValue(lines, i)
           IN  IF ~member.ok THEN member
               ELSE LoadsMembers(lines, member.next,
                                 SetItem(Dict(entries), tok.key, member.value).d)

LoadsItems(lines, i, items) ==
  LET tok == TokenAt(lines, i)
  IN  IF tok.kind = "]" THEN [ok |-> TRUE, value |-> List(items), next |-> i + 1]
      ELSE IF tok.kind = "" \/ tok.key # NoKey
      THEN [ok |-> FALSE, value |-> NoValue, next |-> i + 1]
      ELSE LET item == LoadsValue(lines, i)
           IN  IF ~item.ok THEN item
               ELSE LoadsItems(lines, item.next, Append(items, item.value))

\* json.loads(text): the document, NoValue for a text that is no JSON
\* document
loads(lines) ==
  LET document == LoadsValue(lines, 1)
  IN  IF document.ok /\ document.next = Len(lines) + 1 THEN document.value
      ELSE NoValue

\* generate_model with the test for an empty structure left out
GenerateModelWithoutEmptyCase(structure, output_format) ==
  IF output_format = "json"
  THEN LET clean_structure == _clean_structure_for_json(structure)
       IN  [format |-> output_format, lines |-> dumps(clean_structure),
            json |-> clean_structure]
  ELSE [format |-> output_format,
        lines |-> Joined(_add_type_comments(structure, 0)),
        json |-> EmptyDict]

\* what generate_model returns: the text's lines, each ended by a newline,
\* and for a non-empty json document clean_structure as well
generate_model(structure, output_format) ==
  IF structure.d = <<>>
  THEN IF output_format = "json"
       THEN [format |-> output_format, lines |-> <<Line("", "{}")>>, json |-> EmptyDict]
       ELSE [format |-> output_format,
             lines |-> <<Line("", "# No variables found in template")>>,
             json |-> EmptyDict]
  ELSE IF output_format = "json"
  THEN LET clean_structure == _clean_structure_for_json(structure)
       IN  [format |-> output_format, lines |-> dumps(clean_structure),
            json |-> clean_structure]
  ELSE [format |-> output_format,
        lines |-> Joined(_add_type_comments(structure, 0)),
        json |-> EmptyDict]

(***************************************************************************)
(* State                                                                   *)
(***************************************************************************)
VARIABLES
  template_source,   \* TemplateAnalyzer.template_source
  pc,                \* "parse", "analyze", "returned", "raised", "emitted"
  next_node,         \* index in ast.body of the node analyze handles next
  variables,         \* TemplateAnalyzer.variables
  loop_variables,    \* TemplateAnalyzer.loop_variables
  condition_paths,   \* TemplateAnalyzer.condition_paths
  error,             \* the exception that ended the call, if any
  output,            \* what generate_model returned, if it did
  call,              \* the arguments of generate_model_file or render
  files,             \* the file system: what is at each path
  files_before,      \* the file system when the call began
  data,              \* render: what __load_data returned
  content,           \* model_content / result: the text to be written
  warnings,          \* the warnings validate has emitted, in order
  stderr,            \* main: what was printed to the error stream
  exit_code          \* main: the exit code of the process, -1 while running

vars == <<template_source, pc, next_node, variables, loop_variables,
          condition_paths, error, output, call, files, files_before, data,
          content, warnings, stderr, exit_code>>

\* the state of the analyzer, and the rest
analyzer_vars == <<next_node, variables, loop_variables, condition_paths>>
io_vars == <<call, files, files_before, data, content, warnings, stderr, exit_code>>

NoError == [type |-> "", message |-> ""]
NoOutput == [format |-> "", lines |-> <<>>, json |-> EmptyDict]
\* no call of generate_model_file or render is under way
NoCall == [op |-> "analyze"]
NoFiles == <<>>

\* TemplateAnalyzer.__init__
Init ==
  /\ template_source \in Sources
  /\ pc = "parse"
  /\ next_node = 1
  /\ variables = EmptyDict
  /\ loop_variables = {}
  /\ condition_paths = {}
  /\ error = NoError
  /\ output = NoOutput
  /\ call = NoCall
  /\ files = NoFiles
  /\ files_before = NoFiles
  /\ data = NoValue
  /\ content = NoOutput
  /\ warnings = <<>>
  /\ stderr = ""
  /\ exit_code = -1

\* the parser's exception passed on as it is
SyntaxErrorNotWrapped(err) == [type |-> "TemplateSyntaxError", message |-> err]

\* raise ModelGenerationError(f"Invalid template syntax: {err}")
SyntaxErrorRaised(err) ==
  [type |-> "ModelGenerationError", message |-> "Invalid template syntax: " \o err]

\* analyze: self.env.parse(self.template_source), and the except clause
Parse ==
  /\ pc = "parse"
  /\ IF template_source.syntax_error # ""
     THEN /\ error' = SyntaxErrorRaised(template_source.syntax_error)
          /\ pc' = "raised"
     ELSE /\ error' = error
          /\ pc' = "analyze"
  /\ UNCHANGED <<template_source, next_node, variables, loop_variables,
                 condition_paths, output>>
  /\ UNCHANGED io_vars

\* analyze: one round of `for node in ast.body: self._analyze_node(node)`
AnalyzeNode ==
  /\ pc = "analyze"
  /\ next_node <= Len(template_source.body)
  /\ LET st == _analyze_node([variables |-> variables,
                              loop_variables |-> loop_variables,
                              condition_paths |-> condition_paths],
                             template_source.body[next_node], {})
     IN  /\ variables' = st.variables
         /\ loop_variables' = st.loop_variables
         /\ condition_paths' = st.condition_paths
  /\ next_node' = next_node + 1
  /\ UNCHANGED <<template_source, pc, error, output>>
  /\ UNCHANGED io_vars

\* analyze: the loop is over; apply the condition markers and return
Return ==
  /\ pc = "analyze"
  /\ next_node > Len(template_source.body)
  /\ variables' = _apply_condition_markers(variables, <<>>, condition_paths)
  /\ pc' = "returned"
  /\ UNCHANGED <<template_source, next_node, loop_variables, condition_paths,
                 error, output>>
  /\ UNCHANGED io_vars

\* generate_model, after analyzer.analyze() has returned the structure
GenerateModel ==
  /\ pc = "returned"
  /\ \E output_format \in {"yaml", "json"} :
       output' = generate_model(variables, output_format)
  /\ pc' = "emitted"
  /\ UNCHANGED <<template_source, next_node, variables, loop_variables,
                 condition_paths, error>>
  /\ UNCHANGED io_vars

\* a second call of analyze() on the same TemplateAnalyzer: the source is
\* parsed again and the nodes are analyzed with the fields as the first call
\* left them
AnalyzeAgain ==
  /\ pc = "returned"
  /\ LET st == AnalyzeEach([variables |-> variables,
                            loop_variables |-> loop_variables,
                            condition_paths |-> condition_paths],
                           template_source.body, 1, {})
     IN  /\ variables' = _apply_condition_markers(st.variables, <<>>, st.condition_paths)
         /\ loop_variables' = st.loop_variables
         /\ condition_paths' = st.condition_paths
  /\ pc' = "returned_again"
  /\ UNCHANGED <<template_source, next_node, error, output>>
  /\ UNCHANGED io_vars

Next == Parse \/ AnalyzeNode \/ Return \/ GenerateModel \/ AnalyzeAgain

Spec == Init /\ [][Next]_vars

(***************************************************************************)
(* Files.  A path is its stem and its suffix.  At a path there is no file  *)
(* (in a directory that exists or not), or a file with its text and what   *)
(* the caller may do with it.                                              *)
(***************************************************************************)
Path(stem, suffix) == [stem |-> stem, suffix |-> suffix]
\* str(path)
PathStr(p) == p.stem \o p.suffix
\* Path(template_file).with_suffix(extension)
with_suffix(p, extension) == [p EXCEPT !.suffix = extension]
\* output_file is None
NoPath == Path("", "")

TemplatePath == Path("t", ".j2")
DataPath == Path("d", ".yaml")
OutPath == Path("out", ".txt")
Paths == {TemplatePath, DataPath, OutPath,
          with_suffix(TemplatePath, ".yaml"), with_suffix(TemplatePath, ".json")}

File(text, readable, writable) ==
  [exists |-> TRUE, dir |-> TRUE, readable |-> readable, writable |-> writable,
   text |-> text]
Absent == [exists |-> FALSE, dir |-> TRUE, readable |-> FALSE, writable |-> TRUE,
           text |-> NoOutput]
NoDirectory == [Absent EXCEPT !.dir = FALSE]

\* the exception open(path) ends with, "" when it opens the file
OpenForReading(fs, path) ==
  IF ~fs[path].exists THEN "FileNotFoundError"
  ELSE IF ~fs[path].readable THEN "PermissionError"
  ELSE ""

\* the exception open(path, "w") ends with, "" when it opens the file
OpenForWriting(fs, path) ==
  IF ~fs[path].dir THEN "FileNotFoundError"
  ELSE IF ~fs[path].writable THEN "PermissionError"
  ELSE ""

\* open(path, "a") in place of open(path, "w"): the text is added to what
\* the file holds
WrittenAfterOldText(fs, path, text) ==
  [fs EXCEPT ![path] = [exists |-> TRUE, dir |-> TRUE,
                        readable |-> IF fs[path].exists THEN fs[path].readable ELSE TRUE,
                        writable |-> fs[path].writable,
                        text |-> [text EXCEPT !.lines = fs[path].text.lines \o @]]]

\* the file system after open(path, "w") and f.write(text): the file is
\* created or truncated and holds the text alone
Written(fs, path, text) ==
  [fs EXCEPT ![path] = [exists |-> TRUE, dir |-> TRUE,
                        readable |-> IF fs[path].exists THEN fs[path].readable ELSE TRUE,
                        writable |-> fs[path].writable,
                        text |-> text]]

\* a write that empties the destination before it finds out that it may
\* not write to it
WriteTruncatingFirst(fs, path, text) ==
  LET failure == OpenForWriting(fs, path)
  IN  [failure |-> failure,
       files |-> IF failure = "" THEN Written(fs, path, text)
                 ELSE IF fs[path].exists THEN [fs EXCEPT ![path].text = NoOutput]
                 ELSE fs]

\* with open(path, "w") as f: f.write(text): the exception it ends with
\* ("" when it does not) and the file system afterwards
Write(fs, path, text) ==
  LET failure == OpenForWriting(fs, path)
  IN  [failure |-> failure,
       files |-> IF failure = "" THEN Written(fs, path, text) ELSE fs]

Exception(type, message) == [type |-> type, message |-> message]

\* the subclasses of JinjaCraftError
JinjaCraftErrors == {"DataFileError", "TemplateFileError", "TemplateRenderError",
                     "OutputFileError", "ValidationError", "ModelGenerationError"}

(***************************************************************************)
(* validate                                                                *)
(***************************************************************************)
\* ord() of the first character of the names in use; Python orders strings
\* by code point
Ord == [n \in {"L", "a", "b", "t", "u", "x", "y", "z"} |->
          CASE n = "L" -> 76 [] n = "a" -> 97 [] n = "b" -> 98 [] n = "t" -> 116
            [] n = "u" -> 117 [] n = "x" -> 120 [] n = "y" -> 121 [] n = "z" -> 122]

\* the names in descending order
RECURSIVE SortedDescending(_)
SortedDescending(names) ==
  IF names = {} THEN <<>>
  ELSE LET greatest == CHOOSE n \in names : \A o \in names : Ord[n] >= Ord[o]
       IN  <<greatest>> \o SortedDescending(names \ {greatest})

RECURSIVE sorted(_)
sorted(names) ==
  IF names = {} THEN <<>>
  ELSE LET least == CHOOSE n \in names : \A o \in names : Ord[n] <= Ord[o]
       IN  <<least>> \o sorted(names \ {least})

\* ", ".join(names)
RECURSIVE Join(_)
Join(names) ==
  IF names = <<>> THEN ""
  ELSE IF Len(names) = 1 THEN names[1]
  ELSE names[1] \o ", " \o Join(Tail(names))

\* validate(template_source, data): the exception it ends with (NoError when
\* it returns) and the warnings it emits
validate(source, document) ==
  IF source.syntax_error # ""
  THEN [error |-> Exception("TemplateSyntaxError", source.syntax_error),
        warnings |-> <<>>]
  ELSE LET template_vars == get_template_variables(source.body)
           data_keys == get_data_keys(document)
           missing_vars == template_vars \ data_keys
           unused_vars == sorted(data_keys \ template_vars)
       IN  IF missing_vars # {}
           THEN [error |-> Exception("ValidationError",
                             "Missing variables in data file: "
                               \o Join(sorted(missing_vars))),
                 warnings |-> <<>>]
           ELSE [error |-> NoError,
                 warnings |-> [i \in 1..Len(unused_vars) |->
                                 "Unused variable in data file: " \o unused_vars[i]]]

(***************************************************************************)
(* The inputs of generate_model_file and TemplateRenderer.render           *)
(***************************************************************************)
\* the texts of the template file
FileSources ==
  {[syntax_error |-> "Unexpected end of template.", body |-> <<>>]}
    \cup {[syntax_error |-> "", body |-> b] :
            b \in {<<Out(TemplateData)>>,
                   <<Out(X)>>,
                   <<IfThen(And(X, L), <<>>)>>,
                   <<ForTInL(<<IfThen(Getattr(T, "a"), <<Out(Getattr(T, "b"))>>)>>)>>}}

\* the text a destination holds before the call
OldText == [format |-> "", lines |-> <<Line("", "previous content")>>, json |-> EmptyDict]

\* a mapping with the given keys
DataDict(keys) == Dict([i \in 1..Len(keys) |-> [k |-> keys[i], v |-> Str("value")]])

\* the documents of the data file: what the loader makes of each
DataTexts ==
  {[parse_error |-> "while parsing a block mapping", value |-> NoValue]}
    \cup {[parse_error |-> "", value |-> v] :
            v \in {NoValue, List(<<>>)}
                    \cup {DataDict(keys) :
                            keys \in {<<>>, <<"x">>, <<"x", "L">>, <<"z", "x", "y">>,
                                      <<"y">>, <<"z", "L", "y", "x">>}}}

TemplateFiles ==
  {Absent} \cup {File(src, readable, TRUE) : src \in FileSources, readable \in BOOLEAN}
DataFiles ==
  {Absent} \cup {File(doc, readable, TRUE) : doc \in DataTexts, readable \in BOOLEAN}
Destinations == {Absent, NoDirectory, File(OldText, TRUE, TRUE), File(OldText, TRUE, FALSE)}

\* the TemplateError messages the engine's render can end with, "" when it
\* renders
RenderErrors == {"", "'dict object' has no attribute 'a'"}

\* the text jinja2_template.render(data) returns
Rendered(source, document) ==
  [format |-> "text", lines |-> <<Line("", "rendered text")>>, json |-> EmptyDict]

generate_model_file_calls ==
  {[op |-> "generate_model_file", template_file |-> TemplatePath,
    output_file |-> o, force |-> f, output_format |-> fmt,
    data_file |-> NoPath, data_format |-> ""] :
     o \in {NoPath, OutPath}, f \in BOOLEAN, fmt \in {"yaml", "json"}}

render_calls ==
  {[op |-> "render", template_file |-> TemplatePath,
    output_file |-> o, force |-> FALSE, output_format |-> "",
    data_file |-> DataPath, data_format |-> fmt] :
     o \in {NoPath, OutPath}, fmt \in {"yaml", "json"}}

\* main has parsed the command line and is about to make the call
InitFiles ==
  /\ call \in generate_model_file_calls \cup render_calls
  /\ \E template \in TemplateFiles, out \in Destinations,
        document \in (IF call.op = "render" THEN DataFiles ELSE {Absent}),
        yaml_model, json_model \in (IF call.op = "render" THEN {Absent}
                                    ELSE {Absent, File(OldText, TRUE, TRUE)}) :
       files = [p \in Paths |->
                  IF p = TemplatePath THEN template
                  ELSE IF p = DataPath THEN document
                  ELSE IF p = OutPath THEN out
                  ELSE IF p.suffix = ".yaml" THEN yaml_model
                  ELSE json_model]
  /\ files_before = files
  /\ pc = (IF call.op = "render" THEN "render_data" ELSE "gmf_output")
  /\ template_source = [syntax_error |-> "", body |-> <<>>]
  /\ next_node = 1
  /\ variables = EmptyDict
  /\ loop_variables = {}
  /\ condition_paths = {}
  /\ error = NoError
  /\ output = NoOutput
  /\ data = NoValue
  /\ content = NoOutput
  /\ warnings = <<>>
  /\ stderr = ""
  /\ exit_code = -1

\* the call ends with the exception
Raise(exception) ==
  /\ error' = exception
  /\ pc' = "raised"

(***************************************************************************)
(* generate_model_file                                                     *)
(***************************************************************************)
\* the output path, and the test that it does not exist yet
GmfOutputPath ==
  /\ pc = "gmf_output"
  /\ LET extension == IF call.output_format = "json" THEN ".json" ELSE ".yaml"
         output_file == IF call.output_file = NoPath
                        THEN with_suffix(call.template_file, extension)
                        ELSE call.output_file
     IN  /\ call' = [call EXCEPT !.output_file = output_file]
         /\ IF files[output_file].exists /\ ~call.force
            THEN Raise(Exception("ModelGenerationError",
                         "Output file already exists: " \o PathStr(output_file)
                           \o ". Use --force to overwrite."))
            ELSE error' = error /\ pc' = "gmf_read"
  /\ UNCHANGED <<template_source, output, files, files_before, data, content,
                 warnings, stderr, exit_code>>
  /\ UNCHANGED analyzer_vars

\* with open(template_file) as f: template_source = f.read()
GmfReadTemplate ==
  /\ pc = "gmf_read"
  /\ LET failure == OpenForReading(files, call.template_file)
     IN  IF failure = "FileNotFoundError"
         THEN /\ Raise(Exception("ModelGenerationError",
                         "Template file not found: " \o PathStr(call.template_file)))
              /\ UNCHANGED template_source
         ELSE IF failure = "PermissionError"
         THEN /\ Raise(Exception("ModelGenerationError",
                         "Permission denied: " \o PathStr(call.template_file)))
              /\ UNCHANGED template_source
         ELSE /\ template_source' = files[call.template_file].text
              /\ error' = error
              /\ pc' = "gmf_generate"
  /\ UNCHANGED <<output, io_vars>>
  /\ UNCHANGED analyzer_vars

\* model_content = generate_model(template_source, output_format)
GmfGenerate ==
  /\ pc = "gmf_generate"
  /\ IF template_source.syntax_error # ""
     THEN /\ Raise(SyntaxErrorRaised(template_source.syntax_error))
          /\ UNCHANGED content
     ELSE /\ content' = generate_model(analyze(template_source.body), call.output_format)
          /\ error' = error
          /\ pc' = "gmf_write"
  /\ UNCHANGED <<template_source, output, call, files, files_before, data,
                 warnings, stderr, exit_code>>
  /\ UNCHANGED analyzer_vars

\* with open(output_file, "w") as f: f.write(model_content)
GmfWrite ==
  /\ pc = "gmf_write"
  /\ LET written == Write(files, call.output_file, content)
     IN  /\ files' = written.files
         /\ IF written.failure = "PermissionError"
            THEN Raise(Exception("ModelGenerationError",
                         "Permission denied: " \o PathStr(call.output_file)))
            ELSE IF written.failure # ""
            THEN Raise(Exception(written.failure, PathStr(call.output_file)))
            ELSE error' = error /\ pc' = "done"
  /\ UNCHANGED <<template_source, output, call, files_before, data, content,
                 warnings, stderr, exit_code>>
  /\ UNCHANGED analyzer_vars

(***************************************************************************)
(* TemplateRenderer.render                                                 *)
(***************************************************************************)
\* data = cls.__load_data(data_file, data_format)
RenderLoadData ==
  /\ pc = "render_data"
  /\ LET failure == OpenForReading(files, call.data_file)
         document == files[call.data_file].text
     IN  IF failure = "FileNotFoundError"
         THEN /\ Raise(Exception("DataFileError",
                         "Data file not found: " \o PathStr(call.data_file)))
              /\ UNCHANGED data
         ELSE IF failure = "PermissionError"
         THEN /\ Raise(Exception("DataFileError",
                         "Permission denied: " \o PathStr(call.data_file)))
              /\ UNCHANGED data
         ELSE IF document.parse_error # ""
         THEN /\ Raise(Exception("DataFileError",
                         (IF call.data_format = "json" THEN "Invalid JSON in "
                          ELSE "Invalid YAML in ")
                           \o PathStr(call.data_file) \o ": " \o document.parse_error))
              /\ UNCHANGED data
         ELSE /\ data' = document.value
              /\ error' = error
              /\ pc' = "render_template"
  /\ UNCHANGED <<template_source, output, call, files, files_before, content,
                 warnings, stderr, exit_code>>
  /\ UNCHANGED analyzer_vars

\* template = cls.__load_template(template_file)
RenderLoadTemplate ==
  /\ pc = "render_template"
  /\ LET failure == OpenForReading(files, call.template_file)
     IN  IF failure = "FileNotFoundError"
         THEN /\ Raise(Exception("TemplateFileError",
                         "Template file not found: " \o PathStr(call.template_file)))
              /\ UNCHANGED template_source
         ELSE IF failure = "PermissionError"
         THEN /\ Raise(Exception("TemplateFileError",
                         "Permission denied: " \o PathStr(call.template_file)))
              /\ UNCHANGED template_source
         ELSE /\ template_source' = files[call.template_file].text
              /\ error' = error
              /\ pc' = "render_validate"
  /\ UNCHANGED <<output, io_vars>>
  /\ UNCHANGED analyzer_vars

\* validate(template, data)
RenderValidate ==
  /\ pc = "render_validate"
  /\ LET outcome == validate(template_source, data)
     IN  /\ warnings' = outcome.warnings
         /\ IF outcome.error # NoError
            THEN Raise(outcome.error)
            ELSE error' = error /\ pc' = "render_render"
  /\ UNCHANGED <<template_source, output, call, files, files_before, data,
                 content, stderr, exit_code>>
  /\ UNCHANGED analyzer_vars

\* environment.from_string(template) and jinja2_template.render(data), in
\* the try block: render makes dict(data) of its argument
RenderRender ==
  /\ pc = "render_render"
  /\ IF data = NoValue
     THEN /\ Raise(Exception("TypeError", "'NoneType' object is not iterable"))
          /\ UNCHANGED content
     ELSE \E failure \in RenderErrors :
            IF failure # ""
            THEN /\ Raise(Exception("TemplateRenderError",
                            "Template rendering failed: " \o failure))
                 /\ UNCHANGED content
            ELSE /\ content' = Rendered(template_source, data)
                 /\ error' = error
                 /\ pc' = IF call.output_file = NoPath THEN "render_display"
                          ELSE "render_write"
  /\ UNCHANGED <<template_source, output, call, files, files_before, data,
                 warnings, stderr, exit_code>>
  /\ UNCHANGED analyzer_vars

\* cls.__display(result)
RenderDisplay ==
  /\ pc = "render_display"
  /\ output' = content
  /\ pc' = "done"
  /\ UNCHANGED <<template_source, error, io_vars>>
  /\ UNCHANGED analyzer_vars

\* cls.__write_output(content=result, output_file=output_file)
RenderWrite ==
  /\ pc = "render_write"
  /\ LET written == Write(files, call.output_file, content)
     IN  /\ files' = written.files
         /\ IF written.failure = "PermissionError"
            THEN Raise(Exception("OutputFileError",
                         "Permission denied: " \o PathStr(call.output_file)))
            ELSE IF written.failure = "FileNotFoundError"
            THEN Raise(Exception("OutputFileError",
                         "Directory not found for: " \o PathStr(call.output_file)))
            ELSE error' = error /\ pc' = "done"
  /\ UNCHANGED <<template_source, output, call, files_before, data, content,
                 warnings, stderr, exit_code>>
  /\ UNCHANGED analyzer_vars

(***************************************************************************)
(* main                                                                    *)
(***************************************************************************)
\* the except clause of main, and the end of the process
Exit ==
  /\ pc \in {"raised", "done"}
  /\ call # NoCall
  /\ IF error = NoError
     THEN stderr' = "" /\ exit_code' = 0
     ELSE IF error.type \in JinjaCraftErrors
     THEN stderr' = "Error: " \o error.message /\ exit_code' = 1
     ELSE /\ stderr' = "Traceback (most recent call last): " \o error.type
                         \o ": " \o error.message
          /\ exit_code' = 1
  /\ pc' = "exited"
  /\ UNCHANGED <<template_source, error, output, call, files, files_before, data,
                 content, warnings>>
  /\ UNCHANGED analyzer_vars

NextFiles ==
  \/ GmfOutputPath \/ GmfReadTemplate \/ GmfGenerate \/ GmfWrite
  \/ RenderLoadData \/ RenderLoadTemplate \/ RenderValidate \/ RenderRender
  \/ RenderDisplay \/ RenderWrite
  \/ Exit

SpecFiles == InitFiles /\ [][NextFiles]_vars

(***************************************************************************)
(* Reading a template and a model, for the properties below                *)
(***************************************************************************)
\* analyze has returned its model (variables)
Done == pc \in {"returned", "emitted"}

ast_body == template_source.body

AllChildren(node) ==
  node.target \o node.iter \o node.node \o node.expr \o node.ops \o node.test
    \o node.left \o node.right \o node.args \o node.kwargs \o node.nodes
    \o node.body \o node.elif_ \o node.else_

IsRef(node) == node.k \in {"Name", "Getattr"}


\* the value a model holds at an attribute path, through objects only
RECURSIVE ValueAt(_, _)
ValueAt(value, path) ==
  IF path = <<>> THEN value
  ELSE IF IsDict(value) /\ ~IsConditionMarker(value) /\ HasKey(value, path[1])
  THEN ValueAt(Get(value, path[1]), Tail(path))
  ELSE NoValue

\* a leaf: the placeholder of name, condition-tagged or not
Tagged(name) == ConditionMarker(Str(Placeholder(name)))
Untagged(name) == Str(Placeholder(name))
IsLeafOf(value, name) == value \in {Tagged(name), Untagged(name)}

\* the attribute paths referenced outside every for loop
RECURSIVE PathsOutsideLoops(_)
RECURSIVE PathsOutsideLoopsEach(_, _)
PathsOutsideLoopsEach(children, i) ==
  IF i > Len(children) THEN {}
  ELSE PathsOutsideLoops(children[i]) \cup PathsOutsideLoopsEach(children, i + 1)
PathsOutsideLoops(node) ==
  IF IsRef(node) THEN {_get_attribute_path(node)}
  ELSE IF node.k = "For" THEN {}
  ELSE PathsOutsideLoopsEach(AllChildren(node), 1)

\* the for loops of a template, at any depth
RECURSIVE Loops(_)
RECURSIVE LoopsEach(_, _)
LoopsEach(children, i) ==
  IF i > Len(children) THEN {}
  ELSE Loops(children[i]) \cup LoopsEach(children, i + 1)
Loops(node) ==
  (IF node.k = "For" THEN {node} ELSE {}) \cup LoopsEach(AllChildren(node), 1)

\* the first names of the iterables of all loops
IterableNames(nodes) == {_get_attribute_path(f.iter[1])[1] : f \in LoopsEach(nodes, 1)}

IsPrefix(p, q) == Len(p) <= Len(q) /\ SubSeq(q, 1, Len(p)) = p

(***************************************************************************)
(* C1.  Object shape wins over scalar whatever the order: when an          *)
(* attribute path of a name that no loop iterates over is referenced       *)
(* outside loops, and no longer path extends it, the returned model holds  *)
(* objects along the path and the path's placeholder at its end, however   *)
(* many shorter references to the same name come before or after.          *)
(***************************************************************************)
C1_ObjectShapeWins ==
  Done =>
    \A p \in PathsOutsideLoopsEach(ast_body, 1) :
      ( /\ Len(p) >= 2
        /\ p[1] \notin IterableNames(ast_body)
        /\ \A q \in PathsOutsideLoopsEach(ast_body, 1) : IsPrefix(p, q) => q = p )
      => IsLeafOf(ValueAt(variables, p), p[Len(p)])

\* the target name of a loop
TargetName(f) == f.target[1].name

\* the attributes a such that the loop's body has {{ target.a }} as a statement
DirectItemAttrs(f) ==
  UNION {{f.body[i].nodes[j].attr :
            j \in {j \in 1..Len(f.body[i].nodes) :
                     /\ f.body[i].nodes[j].k = "Getattr"
                     /\ f.body[i].nodes[j].node[1] = Name(TargetName(f))}} :
         i \in {i \in 1..Len(f.body) : f.body[i].k = "Output"}}

\* the top-level loops over a plain name
TopLoopsOverNames == {i \in 1..Len(ast_body) : ast_body[i].k = "For" /\ ast_body[i].iter[1].k = "Name"}

(***************************************************************************)
(* C2.  Loop discovery is sticky: when a top-level loop iterates over the  *)
(* name N and its body outputs an attribute of the loop target, N is a         *)
(* single-element list in the returned model, whatever other references    *)
(* to N the template makes before or after the loop.                       *)
(***************************************************************************)
C2_LoopDiscoverySticky ==
  Done =>
    \A i \in TopLoopsOverNames :
      DirectItemAttrs(ast_body[i]) # {}
      => LET v == ValueAt(variables, <<ast_body[i].iter[1].name>>)
         IN  IsList(v) /\ Len(v.l) = 1

(***************************************************************************)
(* C3.  A loop target is never placed into the model: a loop target that   *)
(* is nowhere a free variable of the template (every reference to it lies  *)
(* in the loop's body, in a nested loop's iterable or in the loop's own    *)
(* filter test) is no top-level key of the returned model.                 *)
(***************************************************************************)
C3_TargetNeverInModel ==
  Done =>
    \A f \in LoopsEach(ast_body, 1) :
      TargetName(f) \notin get_template_variables(ast_body)
      => TargetName(f) \notin Keys(variables)

\* missing_vars of validate(template, data)
MissingVars(nodes, document) == get_template_variables(nodes) \ get_data_keys(document)

(***************************************************************************)
(* C4.  The returned model satisfies the validator: every free variable    *)
(* of the template is a top-level key of the model, so that validate of    *)
(* the template against the model with its markers stripped finds no       *)
(* missing variable.                                                       *)
(***************************************************************************)
C4_ModelSatisfiesValidator ==
  Done => MissingVars(ast_body, _clean_structure_for_json(variables)) = {}

\* the operands of a test: the test itself, or what and / or / not combine
RECURSIVE CondOperands(_)
CondOperands(e) ==
  IF IsRef(e) THEN {e}
  ELSE IF e.k = "Not" THEN CondOperands(e.node[1])
  ELSE IF e.k \in {"And", "Or"} THEN CondOperands(e.left[1]) \cup CondOperands(e.right[1])
  ELSE {}

\* the paths, not starting with a loop target in scope, that some if
\* statement tests
RECURSIVE TestedPaths(_, _)
RECURSIVE TestedPathsEach(_, _, _)
TestedPathsEach(children, i, declared) ==
  IF i > Len(children) THEN {}
  ELSE TestedPaths(children[i], declared) \cup TestedPathsEach(children, i + 1, declared)
TestedPaths(node, declared) ==
  IF node.k = "If"
  THEN {_get_attribute_path(e) :
          e \in {e \in CondOperands(node.test[1]) : _get_attribute_path(e)[1] \notin declared}}
       \cup TestedPathsEach(node.body \o node.elif_ \o node.else_, 1, declared)
  ELSE IF node.k = "For"
  THEN TestedPathsEach(node.body, 1, declared \cup {TargetName(node)})
       \cup TestedPathsEach(node.else_, 1, declared)
  ELSE {}

\* the paths of a model's scalar leaves, tagged or not, through objects only
RECURSIVE LeafPaths(_, _)
LeafPaths(value, prefix) ==
  IF IsStr(value) \/ IsConditionMarker(value) THEN {prefix}
  ELSE IF IsDict(value)
  THEN UNION {LeafPaths(value.d[i].v, Append(prefix, value.d[i].k)) : i \in 1..Len(value.d)}
  ELSE {}

(***************************************************************************)
(* C5.  Top-level condition tagging is exact: a scalar leaf of the         *)
(* returned model at a top-level path is condition-tagged if and only if   *)
(* that path is the test of an if statement, or an operand of and / or /   *)
(* not in such a test, wherever the if statement stands.                   *)
(***************************************************************************)
C5_TopLevelTaggingExact ==
  Done =>
    \A p \in LeafPaths(variables, <<>>) :
      IsConditionMarker(ValueAt(variables, p)) <=> p \in TestedPathsEach(ast_body, 1, {})

\* the statements of a loop body, with those of the branches of its if
\* statements, nested loops left out: the statements of one loop
RECURSIVE OwnStmts(_, _)
OwnStmts(stmts, i) ==
  IF i > Len(stmts) THEN {}
  ELSE {stmts[i]}
       \cup (IF stmts[i].k = "If"
             THEN OwnStmts(stmts[i].body \o stmts[i].elif_ \o stmts[i].else_, 1)
             ELSE {})
       \cup OwnStmts(stmts, i + 1)

\* the attributes a such that {{ target.a }} is output by a loop's own statements
OutputItemAttrs(f) ==
  UNION {{s.nodes[j].attr :
            j \in {j \in 1..Len(s.nodes) :
                     s.nodes[j].k = "Getattr" /\ s.nodes[j].node[1] = Name(TargetName(f))}} :
         s \in {s \in OwnStmts(f.body, 1) : s.k = "Output"}}

\* the attributes a such that target.a is an operand of the test of one of
\* a loop's own if statements
TestedItemAttrs(f) ==
  UNION {{e.attr : e \in {e \in CondOperands(s.test[1]) :
                            e.k = "Getattr" /\ e.node[1] = Name(TargetName(f))}} :
         s \in {s \in OwnStmts(f.body, 1) : s.k = "If"}}

\* the attributes of the items of list N that some loop over N tests
TestedAttrsOf(N) ==
  UNION {TestedItemAttrs(f) :
           f \in {f \in LoopsEach(ast_body, 1) : _get_attribute_path(f.iter[1])[1] = N}}

\* the attributes a such that the loop's body has {% if target.a %} as a statement
DirectlyTestedAttrs(f) ==
  {f.body[i].test[1].attr :
     i \in {i \in 1..Len(f.body) :
              /\ f.body[i].k = "If"
              /\ f.body[i].test[1].k = "Getattr"
              /\ f.body[i].test[1].node[1] = Name(TargetName(f))}}

(***************************************************************************)
(* C6.  Loop-item condition tagging for a direct test: when the body of a  *)
(* top-level loop over the name N with target t has an if statement whose  *)
(* test is t.a, the returned model maps N to a list of one mapping in      *)
(* which a is the condition-tagged "<a>" and every attribute t.b the loop  *)
(* only outputs (no loop over N tests it) is the untagged "<b>".           *)
(***************************************************************************)
C6_LoopItemDirectTest ==
  Done =>
    \A i \in TopLoopsOverNames :
      \A a \in DirectlyTestedAttrs(ast_body[i]) :
        LET v == ValueAt(variables, <<ast_body[i].iter[1].name>>)
        IN  /\ IsList(v) /\ Len(v.l) = 1 /\ IsDict(v.l[1])
            /\ ValueAt(v.l[1], <<a>>) = Tagged(a)
            /\ \A b \in OutputItemAttrs(ast_body[i]) \ TestedAttrsOf(ast_body[i].iter[1].name) :
                 ValueAt(v.l[1], <<b>>) = Untagged(b)

\* a node and the nodes below it
RECURSIVE Nodes(_)
RECURSIVE NodesEach(_, _)
NodesEach(children, i) ==
  IF i > Len(children) THEN {}
  ELSE Nodes(children[i]) \cup NodesEach(children, i + 1)
Nodes(node) == {node} \cup NodesEach(AllChildren(node), 1)

\* <<N, a>>: in the statement, a loop over N tests the attribute a of its items
ItemsTested(stmt) ==
  UNION {{<<_get_attribute_path(f.iter[1])[1], a>> : a \in TestedItemAttrs(f)} :
         f \in Loops(stmt)}

\* <<N, a>>: in the statement, the body of a loop over N mentions target.a
ItemsReferenced(stmt) ==
  UNION {{<<_get_attribute_path(f.iter[1])[1], n.attr>> :
            n \in {n \in NodesEach(f.body, 1) :
                     n.k = "Getattr" /\ n.node[1] = Name(TargetName(f))}} :
         f \in Loops(stmt)}

\* the paths the statement references that start with a free variable
PathsReferenced(stmt) ==
  {_get_attribute_path(n) :
     n \in {n \in Nodes(stmt) : IsRef(n) /\ _get_attribute_path(n)[1] \in Undeclared(stmt, {})}}

\* the template with its i-th and j-th statements exchanged
Swapped(i, j) == [ast_body EXCEPT ![i] = ast_body[j], ![j] = ast_body[i]]

TopTested(stmt) == TestedPaths(stmt, {})

\* the item mapping of the list a model holds for N, or NoValue
ItemOf(model, N) ==
  LET v == ValueAt(model, <<N>>)
  IN  IF IsList(v) /\ v.l # <<>> THEN v.l[1] ELSE NoValue

(***************************************************************************)
(* C7.  Condition tagging is independent of order: exchanging a statement  *)
(* whose if tests a path with a statement that references the same path    *)
(* leaves the tag of that path's leaf as it was, for a top-level path and  *)
(* for an attribute of the items of a list.                                *)
(***************************************************************************)
C7_TaggingOrderIndependent ==
  Done =>
    \A i \in 1..Len(ast_body) : \A j \in (i + 1)..Len(ast_body) :
      LET other == analyze(Swapped(i, j))
      IN  /\ \A p \in (TopTested(ast_body[i]) \cap PathsReferenced(ast_body[j]))
                        \cup (TopTested(ast_body[j]) \cap PathsReferenced(ast_body[i])) :
               p \in LeafPaths(variables, <<>>) \cap LeafPaths(other, <<>>)
               => ValueAt(variables, p) = ValueAt(other, p)
          /\ \A e \in (ItemsTested(ast_body[i]) \cap ItemsReferenced(ast_body[j]))
                        \cup (ItemsTested(ast_body[j]) \cap ItemsReferenced(ast_body[i])) :
               ( /\ ValueAt(ItemOf(variables, e[1]), <<e[2]>>) # NoValue
                 /\ ValueAt(ItemOf(other, e[1]), <<e[2]>>) # NoValue )
               => ValueAt(ItemOf(variables, e[1]), <<e[2]>>)
                    = ValueAt(ItemOf(other, e[1]), <<e[2]>>)

\* the names a sequence of nodes mentions
NamesIn(nodes) == {n.name : n \in {n \in NodesEach(nodes, 1) : n.k = "Name"}}

\* the loop's body is print statements of text and of attributes of its
\* target, at least one of them, and nothing else mentions the iterable N
OnlyOutputsItemAttrs(i) ==
  LET f == ast_body[i]
      N == f.iter[1].name
  IN  /\ DirectItemAttrs(f) # {}
      /\ \A k \in 1..Len(f.body) :
           /\ f.body[k].k = "Output"
           /\ \A j \in 1..Len(f.body[k].nodes) :
                \/ f.body[k].nodes[j].k = "TemplateData"
                \/ /\ f.body[k].nodes[j].k = "Getattr"
                   /\ f.body[k].nodes[j].node[1] = Name(TargetName(f))
      /\ N \notin NamesIn(f.target \o f.body \o f.else_ \o f.test)
      /\ \A j \in 1..Len(ast_body) : j # i => N \notin NamesIn(<<ast_body[j]>>)

(***************************************************************************)
(* C8.  Basic loop shape: a top-level loop over the name N whose body          *)
(* outputs the attributes a1 .. an of its target, N being mentioned        *)
(* nowhere else, gives N a list of exactly one mapping whose keys are      *)
(* exactly a1 .. an, each with the untagged placeholder "<ai>".            *)
(***************************************************************************)
C8_BasicLoopShape ==
  Done =>
    \A i \in TopLoopsOverNames :
      OnlyOutputsItemAttrs(i)
      => LET v == ValueAt(variables, <<ast_body[i].iter[1].name>>)
             attrs == DirectItemAttrs(ast_body[i])
         IN  /\ IsList(v) /\ Len(v.l) = 1 /\ IsDict(v.l[1])
             /\ Keys(v.l[1]) = attrs
             /\ Len(v.l[1].d) = Cardinality(attrs)
             /\ \A a \in attrs : Get(v.l[1], a) = Untagged(a)

\* analyze has returned for a template with another statement and a loop
\* that outputs two attributes of its target
C8_Witness ==
  /\ Done
  /\ Len(ast_body) = MaxStmts
  /\ \E i \in TopLoopsOverNames :
       OnlyOutputsItemAttrs(i) /\ Cardinality(DirectItemAttrs(ast_body[i])) = 2

\* no print statement of the template prints an expression
NoExpressionOutput ==
  \A n \in NodesEach(ast_body, 1) :
    n.k = "Output" => \A j \in 1..Len(n.nodes) : n.nodes[j].k = "TemplateData"

\* the names and attribute accesses of a template other than the targets
\* and the iterables of its loops
RECURSIVE RefsBesideIterables(_)
RECURSIVE RefsBesideIterablesEach(_, _)
RefsBesideIterablesEach(children, i) ==
  IF i > Len(children) THEN {}
  ELSE RefsBesideIterables(children[i]) \cup RefsBesideIterablesEach(children, i + 1)
RefsBesideIterables(node) ==
  IF IsRef(node) THEN {node}
  ELSE IF node.k = "For"
  THEN RefsBesideIterablesEach(node.body \o node.else_ \o node.test, 1)
  ELSE RefsBesideIterablesEach(AllChildren(node), 1)

\* the text generate_model returns for an empty model
NoVariablesText(output_format) ==
  IF output_format = "json" THEN <<Line("", "{}")>>
  ELSE <<Line("", "# No variables found in template")>>

(***************************************************************************)
(* C9.  For every template with no expression output, analyze returns the  *)
(* empty model.  A template that only tests a name in an if statement has  *)
(* no expression output and a model that holds the name.                   *)
(***************************************************************************)
C9_NoOutputEmptyModel ==
  (Done /\ NoExpressionOutput) => variables = EmptyDict

(***************************************************************************)
(* C9, for the templates without references.  For every template of text,  *)
(* for loops and if statements with no expression output and no name or    *)
(* attribute anywhere but as the target or the iterable of a for loop,     *)
(* analyze returns the empty model, and generate_model returns the line    *)
(* "# No variables found in template" in yaml mode and the line "{}" in    *)
(* json mode.                                                              *)
(***************************************************************************)
C9_NoReferenceEmptyModel ==
  (Done /\ NoExpressionOutput /\ RefsBesideIterablesEach(ast_body, 1) = {})
  => /\ variables = EmptyDict
     /\ pc = "emitted" =>
          /\ output.lines = NoVariablesText(output.format)
          /\ output.json = EmptyDict

\* generate_model has answered in yaml mode for a template of text and a
\* loop without any reference in it
C9_Witness ==
  /\ pc = "emitted"
  /\ output.format = "yaml"
  /\ NoExpressionOutput
  /\ RefsBesideIterablesEach(ast_body, 1) = {}
  /\ LoopsEach(ast_body, 1) # {}

(***************************************************************************)
(* C10.  When the parser rejects the source, the call ends with a          *)
(* ModelGenerationError whose message is "Invalid template syntax: "       *)
(* followed by the parser's message, no node is analyzed and nothing is    *)
(* returned; when the parser accepts the source, no error is raised.       *)
(***************************************************************************)
C10_SyntaxErrorWrapped ==
  /\ (template_source.syntax_error # "" /\ pc # "parse")
     => /\ pc = "raised"
        /\ error = [type |-> "ModelGenerationError",
                    message |-> "Invalid template syntax: "
                                  \o template_source.syntax_error]
        /\ variables = EmptyDict
        /\ output = NoOutput
  /\ template_source.syntax_error = "" => (error = NoError /\ pc # "raised")

\* the parser has rejected the source and the call has ended
C10_Witness == pc = "raised" /\ template_source.syntax_error # ""

(***************************************************************************)
(* Reading a call of generate_model_file or render                         *)
(***************************************************************************)
\* the call has ended, with an exception or without
Ended == pc \in {"raised", "done", "exited"}
Failed == Ended /\ error # NoError

\* the template file holds a template the parser accepts, and can be read
ValidTemplate ==
  /\ OpenForReading(files_before, call.template_file) = ""
  /\ files_before[call.template_file].text.syntax_error = ""

\* the text generate_model returns for the template file
GeneratedModel ==
  generate_model(analyze(files_before[call.template_file].text.body),
                 call.output_format)

AlreadyExists(path) ==
  Exception("ModelGenerationError",
            "Output file already exists: " \o PathStr(path)
              \o ". Use --force to overwrite.")

\* the destination is the explicit path, or the template's path with the
\* suffix of the format
Destination ==
  IF call.output_file # NoPath THEN call.output_file
  ELSE IF call.output_format = "json" THEN Path("t", ".json") ELSE Path("t", ".yaml")

\* without force an existing destination ends the call with the "already
\* exists" error and stays as it was
RefusedWithoutForce ==
  (Ended /\ call.op = "generate_model_file" /\ ~call.force
     /\ files_before[Destination].exists)
  => /\ error = AlreadyExists(Destination)
     /\ files = files_before

(***************************************************************************)
(* C11.  Overwrite protection: generate_model_file with force=False for    *)
(* an output path that already exists fails with a ModelGenerationError    *)
(* whose message contains "already exists" and leaves the file unchanged;  *)
(* with force=True for a valid template it succeeds and the file holds     *)
(* exactly the generated model.  A destination the caller may not write    *)
(* to makes the call with force=True fail.                                 *)
(***************************************************************************)
C11_OverwriteProtection ==
  /\ RefusedWithoutForce
  /\ (Ended /\ call.op = "generate_model_file" /\ call.force /\ ValidTemplate)
     => /\ error = NoError
        /\ files[Destination].exists
        /\ files[Destination].text = GeneratedModel

(***************************************************************************)
(* C11, for destinations that can be written.  As above, the call with     *)
(* force=True being for a valid template and a destination whose           *)
(* directory exists and that the caller may write to; every other path     *)
(* stays as it was.                                                        *)
(***************************************************************************)
C11_OverwriteWhenWritable ==
  /\ RefusedWithoutForce
  /\ (Ended /\ call.op = "generate_model_file" /\ call.force /\ ValidTemplate
        /\ OpenForWriting(files_before, Destination) = "")
     => /\ error = NoError
        /\ files[Destination].exists
        /\ files[Destination].text = GeneratedModel
        /\ \A p \in Paths \ {Destination} : files[p] = files_before[p]

\* the call with force=True has replaced the text of an existing file
C11_Witness ==
  /\ pc = "done"
  /\ call.op = "generate_model_file" /\ call.force
  /\ files_before[Destination].exists
  /\ files_before[Destination].text = OldText
  /\ files[Destination].text = GeneratedModel
  /\ GeneratedModel.lines # <<>>

(***************************************************************************)
(* C12.  No partial output on failure: when generate_model_file or render  *)
(* ends in an error, every file is as it was before the call, also with    *)
(* force=True and an existing destination; and the destination changes     *)
(* only after the whole output text has been composed.                     *)
(***************************************************************************)
C12_NoPartialOutput ==
  /\ Failed => files = files_before
  /\ files # files_before
     => /\ content # NoOutput
        /\ pc \in {"done", "exited"}
        /\ files[Destination].text = content
        /\ \A p \in Paths \ {Destination} : files[p] = files_before[p]

\* a call with force=True on an existing destination has failed on the
\* template's syntax
C12_Witness ==
  /\ pc = "raised"
  /\ call.op = "generate_model_file" /\ call.force
  /\ files_before[Destination].exists
  /\ error.type = "ModelGenerationError"
  /\ template_source.syntax_error # ""

\* seq lists the names of the set once each, in ascending code-point order
IsSortedListOf(seq, names) ==
  /\ Len(seq) = Cardinality(names)
  /\ {seq[i] : i \in 1..Len(seq)} = names
  /\ \A i \in 1..Len(seq) : \A j \in (i + 1)..Len(seq) : Ord[seq[i]] < Ord[seq[j]]

\* the sequences of distinct names of a set
RECURSIVE Listings(_)
Listings(names) ==
  IF names = {} THEN {<<>>}
  ELSE UNION {{<<n>> \o rest : rest \in Listings(names \ {n})} : n \in names}

(***************************************************************************)
(* C13.  Outcome of validate(template, data), V being the free variables   *)
(* of the template and K the top-level keys of data (none when data is     *)
(* not a mapping): it raises ValidationError exactly when V \ K is not     *)
(* empty, the message listing the names of V \ K in sorted order joined    *)
(* by ", "; otherwise it returns and emits one warning per name of K \ V.  *)
(***************************************************************************)
C13_ValidateOutcome ==
  [][ (pc = "render_validate" /\ template_source.syntax_error = "")
      => LET V == get_template_variables(template_source.body)
             K == IF IsDict(data) THEN Keys(data) ELSE {}
         IN  /\ (pc' = "raised" /\ error'.type = "ValidationError") <=> (V \ K # {})
             /\ V \ K # {}
                => /\ \E seq \in Listings(V \ K) :
                        /\ IsSortedListOf(seq, V \ K)
                        /\ error'.message = "Missing variables in data file: " \o Join(seq)
                   /\ warnings' = <<>>
             /\ V \ K = {}
                => /\ pc' = "render_render" /\ error' = NoError
                   /\ Len(warnings') = Cardinality(K \ V)
                   /\ {warnings'[i] : i \in 1..Len(warnings')}
                        = {"Unused variable in data file: " \o n : n \in K \ V} ]_vars

\* validate has raised for two missing names while the data holds a key the
\* template does not use
C13_Witness ==
  /\ pc = "raised"
  /\ error = Exception("ValidationError", "Missing variables in data file: L, x")
  /\ IsDict(data) /\ Keys(data) = {"y"}

\* the model with each condition-tagged leaf replaced by its placeholder
RECURSIVE Stripped(_)
Stripped(v) ==
  IF IsConditionMarker(v) THEN Get(v, "value")
  ELSE IF IsDict(v)
  THEN Dict([i \in 1..Len(v.d) |-> [k |-> v.d[i].k, v |-> Stripped(v.d[i].v)]])
  ELSE IF IsList(v) THEN List([j \in 1..Len(v.l) |-> Stripped(v.l[j])])
  ELSE v

\* a "__condition__" key at some depth of the value
RECURSIVE HasConditionKey(_)
HasConditionKey(v) ==
  IF IsDict(v)
  THEN HasKey(v, "__condition__") \/ \E i \in 1..Len(v.d) : HasConditionKey(v.d[i].v)
  ELSE IF IsList(v) THEN \E j \in 1..Len(v.l) : HasConditionKey(v.l[j])
  ELSE FALSE

(***************************************************************************)
(* C14.  Plain-mode emission strips every condition marker: the text       *)
(* generate_model returns in json mode, parsed again, is the model with    *)
(* each condition-tagged leaf replaced by its bare placeholder and         *)
(* everything else (keys, their order, nesting, one-element lists)         *)
(* unchanged; no "__condition__" key remains at any depth.                 *)
(***************************************************************************)
C14_PlainModeStripsMarkers ==
  (pc = "emitted" /\ output.format = "json")
  => /\ loads(output.lines) = Stripped(variables)
     /\ ~HasConditionKey(loads(output.lines))
     /\ output.json = Stripped(variables)

\* json mode has answered for a model with a tagged leaf in a list item and
\* a tagged leaf outside of lists
C14_Witness ==
  /\ pc = "emitted" /\ output.format = "json"
  /\ \E i \in 1..Len(variables.d) :
       IsList(variables.d[i].v) /\ HasConditionKey(variables.d[i].v)
  /\ \E i \in 1..Len(variables.d) :
       ~IsList(variables.d[i].v) /\ HasConditionKey(variables.d[i].v)

\* the keys of a model in the order of the document, each with its value
\* and with "- " where it begins a list item
RECURSIVE KeysInOrder(_, _, _)
RECURSIVE KeysOfItems(_, _)
KeysInOrder(dict, i, lead) ==
  IF i > Len(dict.d) THEN <<>>
  ELSE LET value == dict.d[i].v
       IN  <<[lead |-> lead, key |-> dict.d[i].k, value |-> value]>>
             \o (IF IsConditionMarker(value) THEN <<>>
                 ELSE IF IsDict(value) THEN KeysInOrder(value, 1, "")
                 ELSE IF IsList(value) THEN KeysOfItems(value.l, 1)
                 ELSE <<>>)
             \o KeysInOrder(dict, i + 1, "")
KeysOfItems(items, j) ==
  IF j > Len(items) THEN <<>>
  ELSE KeysInOrder(items[j], 1, "- ") \o KeysOfItems(items, j + 1)

\* the line of a key: the key, its value if it is a leaf, and the comment
\* that classifies the value
ClassifiedLine(entry) ==
  entry.lead \o entry.key \o ":"
    \o (IF IsConditionMarker(entry.value)
        THEN " " \o Quote(Get(entry.value, "value").s)
               \o "  # truthy value (boolean, string, number)"
        ELSE IF IsStr(entry.value) THEN " " \o Quote(entry.value.s) \o "  # string"
        ELSE IF IsList(entry.value) THEN "  # list"
        ELSE "  # object")

(***************************************************************************)
(* C15.  Annotated-mode emission classifies every entry: for a non-empty   *)
(* model each key, at every depth and in list items, is on exactly one     *)
(* output line, and the line carries the one comment of the value's        *)
(* shape: "# string" for a placeholder, "# truthy value (boolean, string,  *)
(* number)" for a condition-tagged leaf, whose placeholder is quoted,      *)
(* "# list" for a list and "# object" for a mapping.                       *)
(***************************************************************************)
C15_AnnotatedModeClassifies ==
  (pc = "emitted" /\ output.format = "yaml" /\ variables # EmptyDict)
  => LET entries == KeysInOrder(variables, 1, "")
     IN  /\ Len(output.lines) = Len(entries)
         /\ \A i \in 1..Len(entries) :
              output.lines[i].text = ClassifiedLine(entries[i])

\* yaml mode has answered for a model with a string, a tagged leaf, a list
\* and an object
C15_Witness ==
  /\ pc = "emitted" /\ output.format = "yaml"
  /\ \E i, j \in 1..Len(variables.d) :
       /\ IsList(variables.d[i].v) /\ HasConditionKey(variables.d[i].v)
       /\ Len(variables.d[i].v.l[1].d) > 1
       /\ IsDict(variables.d[j].v) /\ ~IsConditionMarker(variables.d[j].v)

(***************************************************************************)
(* C16.  The model analyze returns depends only on the template source:    *)
(* every call on the same source returns the model a new TemplateAnalyzer  *)
(* returns for it, a second call on the same instance included; what the   *)
(* first call left in the condition registry, the loop-discovery set and   *)
(* the variables does not change the result of the second.                 *)
(***************************************************************************)
C16_AnalyzeDependsOnSourceOnly ==
  pc \in {"returned", "returned_again"} => variables = analyze(ast_body)

(***************************************************************************)
(* C17.  Every failure on the render path is a typed JinjaCraftError: the  *)
(* only exceptions that leave TemplateRenderer.render are subclasses of    *)
(* JinjaCraftError, so that main prints "Error: <message>" to the error    *)
(* stream and exits with code 1; no exception of the template engine       *)
(* escapes, also for a template the parser rejects.                        *)
(***************************************************************************)
C17_RenderErrorsAreTyped ==
  (call.op = "render" /\ Failed)
  => /\ error.type \in JinjaCraftErrors
     /\ pc = "exited" => (stderr = "Error: " \o error.message /\ exit_code = 1)

\* the iterable of the i-th statement, a loop, is mentioned nowhere else
OnlyIterated(i) ==
  LET f == ast_body[i]
  IN  /\ f.iter[1].name \notin NamesIn(f.target \o f.body \o f.else_ \o f.test)
      /\ \A j \in 1..Len(ast_body) : j # i => f.iter[1].name \notin NamesIn(<<ast_body[j]>>)

IsItemAccess(node, target) == node.k = "Getattr" /\ node.node[1] = Name(target)

\* the item mapping of the list at a top-level name holds the key
ItemRecorded(name, key) ==
  LET v == ValueAt(variables, <<name>>)
  IN  /\ IsList(v) /\ Len(v.l) = 1
      /\ IsDict(v.l[1]) /\ HasKey(v.l[1], key)

CompoundKinds == {"Filter", "Compare", "Not", "And", "Or", "Call"}

\* the attributes a of the accesses target.a below the node that sit inside
\* a compound expression, inner loops left aside
RECURSIVE CompoundItemAttrs(_, _, _)
CompoundItemAttrs(node, target, within) ==
  IF IsItemAccess(node, target) THEN (IF within THEN {node.attr} ELSE {})
  ELSE IF node.k = "For" THEN {}
  ELSE LET children == AllChildren(node)
       IN  UNION {CompoundItemAttrs(children[i], target,
                                    within \/ node.k \in CompoundKinds) :
                  i \in 1..Len(children)}

(***************************************************************************)
(* C18.  Loop-item attribute references inside compound expressions are    *)
(* recorded: for a loop over a top-level name with target t, an access t.a *)
(* in the loop body inside a filter application, a comparison, a boolean   *)
(* operand or a call argument is a key of the item mapping of the          *)
(* iterable's one-element list, as when t.a is output directly.  Checked   *)
(* for iterables that nothing else in the template mentions.               *)
(***************************************************************************)
C18_CompoundItemReferencesRecorded ==
  Done
  => \A i \in {i \in TopLoopsOverNames : OnlyIterated(i)} :
       \A j \in 1..Len(ast_body[i].body) :
         \A a \in CompoundItemAttrs(ast_body[i].body[j], TargetName(ast_body[i]), FALSE) :
           ItemRecorded(ast_body[i].iter[1].name, a)

\* the attributes a of the accesses target.a that are a printed expression
\* or the whole test of the if statement or of one of its branches
RECURSIVE BranchItemAttrs(_, _)
BranchItemAttrs(stmt, target) ==
  IF stmt.k = "Output"
  THEN {stmt.nodes[i].attr :
          i \in {i \in 1..Len(stmt.nodes) : IsItemAccess(stmt.nodes[i], target)}}
  ELSE IF stmt.k = "If"
  THEN LET branches == stmt.body \o stmt.elif_ \o stmt.else_
       IN  (IF IsItemAccess(stmt.test[1], target) THEN {stmt.test[1].attr} ELSE {})
             \cup UNION {BranchItemAttrs(branches[i], target) : i \in 1..Len(branches)}
  ELSE {}

\* the paths referenced below the node whose first name is not the target,
\* inner loops left aside
RECURSIVE UnshadowedPaths(_, _)
UnshadowedPaths(node, target) ==
  IF IsRef(node)
  THEN (IF _get_attribute_path(node)[1] = target THEN {} ELSE {_get_attribute_path(node)})
  ELSE IF node.k = "For" THEN {}
  ELSE LET children == AllChildren(node)
       IN  UNION {UnshadowedPaths(children[i], target) : i \in 1..Len(children)}

\* the if statements that are statements of the body of the loop
IfsOf(f) == {f.body[j] : j \in {j \in 1..Len(f.body) : f.body[j].k = "If"}}

(***************************************************************************)
(* C19.  The loop-body walker covers every branch of an if statement: for  *)
(* an if statement in the body of a loop over a top-level name, every      *)
(* reference in its test, its body, each elif branch and its else branch   *)
(* whose first name is not the loop target is in the model, and every      *)
(* direct access target.a in them is a key of the iterable's item mapping. *)
(* Checked for iterables that nothing else in the template mentions.       *)
(***************************************************************************)
C19_LoopBodyIfBranchesCovered ==
  Done
  => \A i \in {i \in TopLoopsOverNames : OnlyIterated(i)} :
       \A stmt \in IfsOf(ast_body[i]) :
         /\ \A path \in UnshadowedPaths(stmt, TargetName(ast_body[i])) :
              HasKey(variables, path[1])
         /\ \A a \in BranchItemAttrs(stmt, TargetName(ast_body[i])) :
              ItemRecorded(ast_body[i].iter[1].name, a)

\* a list is the value itself or is somewhere below it
RECURSIVE HoldsList(_)
HoldsList(value) ==
  \/ IsList(value)
  \/ /\ IsDict(value)
     /\ \E i \in 1..Len(value.d) : HoldsList(value.d[i].v)

\* one element, a non-empty mapping of leaves
IsItemList(value) ==
  /\ IsList(value) /\ Len(value.l) = 1
  /\ IsDict(value.l[1]) /\ ~IsConditionMarker(value.l[1])
  /\ value.l[1].d # <<>>
  /\ \A i \in 1..Len(value.l[1].d) : IsLeafOf(value.l[1].d[i].v, value.l[1].d[i].k)

\* the loops of the template, at any depth, whose iterable starts with name
LoopsOver(name) ==
  {f \in LoopsEach(ast_body, 1) : _get_attribute_path(f.iter[1])[1] = name}

\* the body of the loop mentions an attribute of its target
AccessesItem(f) ==
  \E n \in NodesEach(f.body, 1) : IsItemAccess(n, TargetName(f))

\* no printed expression and no test of an if statement of the body of the
\* i-th statement, a loop, is an attribute of its target
NoDirectAccess(i) ==
  \A j \in 1..Len(ast_body[i].body) :
    BranchItemAttrs(ast_body[i].body[j], TargetName(ast_body[i])) = {}

(***************************************************************************)
(* C20.  List-shape invariant: in every model analyze returns, a list is   *)
(* the value of a top-level key and holds exactly one element, a non-empty *)
(* mapping whose values are all leaves (the placeholder of their key,      *)
(* condition-tagged or not); neither [] nor [{}] appears; a list is there  *)
(* only for the iterable of a loop that accesses an attribute of its       *)
(* target, and a loop with no direct attribute access on its target adds   *)
(* no entry for its iterable.                                              *)
(***************************************************************************)
C20_ListShape ==
  Done
  => /\ \A k \in 1..Len(variables.d) :
          LET v == variables.d[k].v
          IN  IF IsList(v)
              THEN /\ IsItemList(v)
                   /\ \E f \in LoopsOver(variables.d[k].k) : AccessesItem(f)
              ELSE ~HoldsList(v)
     /\ \A i \in {i \in TopLoopsOverNames : OnlyIterated(i)} :
          NoDirectAccess(i) => ~HasKey(variables, ast_body[i].iter[1].name)

\* analyze has returned a model with a list whose item has two attributes
\* next to an entry that is not a list
C20_Witness ==
  /\ Done
  /\ Len(ast_body) = MaxStmts
  /\ \E j, k \in 1..Len(variables.d) :
       /\ IsList(variables.d[k].v)
       /\ Len(variables.d[k].v.l[1].d) = 2
       /\ ~IsList(variables.d[j].v)

\* the attribute paths the nodes reference, in the order of the source;
\* a reference is taken whole, its base is not a reference of its own
RECURSIVE RefSeq(_)
RECURSIVE RefSeqEach(_, _)
RefSeqEach(children, i) ==
  IF i > Len(children) THEN <<>>
  ELSE RefSeq(children[i]) \o RefSeqEach(children, i + 1)
RefSeq(node) ==
  IF IsRef(node) THEN <<_get_attribute_path(node)>>
  ELSE RefSeqEach(AllChildren(node), 1)

\* the paths of the template that start with name, the name taken off
PathsBelow(name) ==
  LET StartsWithName(path) == path[1] = name
      found == SelectSeq(RefSeqEach(ast_body, 1), StartsWithName)
  IN  [i \in 1..Len(found) |-> Tail(found[i])]

\* every reference to name is an attribute path outside loops and none is a
\* proper prefix of another
OnlyAttributePaths(name) ==
  LET paths == PathsBelow(name)
  IN  /\ paths # <<>>
      /\ \A i \in 1..Len(paths) : paths[i] # <<>>
      /\ \A i, j \in 1..Len(paths) : IsPrefix(paths[i], paths[j]) => paths[i] = paths[j]
      /\ \A f \in LoopsEach(ast_body, 1) : name \notin NamesIn(<<f>>)

\* the elements of a sequence, each once, in the order of their first
\* occurrence
RECURSIVE FirstSeen(_)
FirstSeen(s) ==
  IF s = <<>> THEN <<>>
  ELSE LET before == FirstSeen(SubSeq(s, 1, Len(s) - 1))
       IN  IF \E i \in 1..Len(before) : before[i] = s[Len(s)]
           THEN before
           ELSE Append(before, s[Len(s)])

\* the value is the object of the paths: its keys are their first names,
\* each once and as first seen, a path that ends there gives a leaf and the
\* paths that go on give the object of their rests
RECURSIVE IsObjectOf(_, _)
IsObjectOf(value, paths) ==
  /\ IsDict(value) /\ ~IsConditionMarker(value)
  /\ [i \in 1..Len(value.d) |-> value.d[i].k]
       = FirstSeen([i \in 1..Len(paths) |-> paths[i][1]])
  /\ \A i \in 1..Len(value.d) :
       LET StartsWithKey(path) == path[1] = value.d[i].k
           under == SelectSeq(paths, StartsWithKey)
           rests == [j \in 1..Len(under) |-> Tail(under[j])]
       IN  IF \A j \in 1..Len(rests) : rests[j] = <<>>
           THEN IsLeafOf(value.d[i].v, value.d[i].k)
           ELSE /\ \A j \in 1..Len(rests) : rests[j] # <<>>
                /\ IsObjectOf(value.d[i].v, rests)

ReferencedNames == {RefSeqEach(ast_body, 1)[i][1] : i \in 1..Len(RefSeqEach(ast_body, 1))}

(***************************************************************************)
(* C21.  Object merge is a key union in first-seen order: when all         *)
(* references to a top-level name N are attribute paths outside loops,     *)
(* none a proper prefix of another, the model holds N once as a top-level  *)
(* key, with the object of exactly those paths: shared keys merged, no key *)
(* dropped or twice, and at every level the keys in the order in which     *)
(* they were first referenced.                                             *)
(***************************************************************************)
C21_ObjectMergeIsKeyUnion ==
  Done
  => \A name \in ReferencedNames :
       OnlyAttributePaths(name)
       => /\ Cardinality({i \in 1..Len(variables.d) : variables.d[i].k = name}) = 1
          /\ IsObjectOf(Get(variables, name), PathsBelow(name))

====
